---- MODULE Spec2Model ----
(***************************************************************************)
(* Media-mix simulator: the performance calculator                          *)
(* (calculate_performance, calculate_media_performance) and the scenario   *)
(* generator (generate_scenarios) of src/modules/calculations.py.          *)
(*                                                                         *)
(* Python numbers are modelled as exact rationals <<n, d>> (d > 0, lowest  *)
(* terms); Python dicts as functions from a set of string keys, so that a  *)
(* missing key is a key outside the DOMAIN.  An exception is the value     *)
(* [ok |-> FALSE, type |-> ..., msg |-> ...] returned instead of a result. *)
(***************************************************************************)
EXTENDS Integers, Sequences, FiniteSets, TLC

VARIABLES
    selected_media,       \* the channel dicts a computation is called on
    total_budget,         \* the total budget of the computation
    scenario_adjustment,  \* generate_scenarios argument (width s, %)
    scenarios,            \* what the last generate_scenarios call returned
    prev_scenarios,       \* what the call before it returned
    gen_state,            \* "idle", or how the last call ended: "returned", "raised"
    perf_budget,          \* calculate_performance argument
    adjusted_metrics,     \* calculate_performance argument {'CPC','CTR','CVR'}
    perf_result,          \* what calculate_performance returned or raised
    arg_industry,         \* benchmark functions: argument industry
    arg_month,            \* benchmark functions: argument month
    arg_budget,           \* benchmark functions: argument budget
    arg_media_key,        \* benchmark functions: argument media_key
    arg_base_metrics,     \* apply_adjustments argument base_metrics
    bench_call,           \* "none", or the benchmark function that was called
    bench_result,         \* what that call returned or raised
    avg_cpa,              \* calculate_efficiency_grade argument
    avg_roas,             \* calculate_efficiency_grade argument
    total_conversions,    \* calculate_efficiency_grade argument
    grade,                \* "none", or the grade it returned
    mode,                 \* the entry path of a run
    media_config,         \* the channels the user entered for the run
    auto_normalize,       \* st.session_state['auto_normalize']
    run_state,            \* "idle", "rejected", "stored", "failed", "terminated"
    recommendations,      \* what generate_recommendations returned
    goal,                 \* the campaign goal handed to generate_ai_insights
    insights              \* what generate_ai_insights returned

scen_vars == <<selected_media, total_budget, scenario_adjustment, scenarios,
               prev_scenarios, gen_state>>

perf_vars == <<perf_budget, adjusted_metrics, perf_result>>

bench_vars == <<arg_industry, arg_month, arg_budget, arg_media_key,
                arg_base_metrics, bench_call, bench_result>>

grade_vars == <<avg_cpa, avg_roas, total_conversions, grade>>

run_vars == <<mode, media_config, auto_normalize, run_state>>

insight_vars == <<recommendations, goal, insights>>

vars == <<scen_vars, perf_vars, bench_vars, grade_vars, run_vars, insight_vars>>

(***************************************************************************)
(* Bounds of the model.                                                    *)
(***************************************************************************)
MaxChannels == 2

\* active channels of the auto-generation page when ratios are normalized
MaxActive == 4

(***************************************************************************)
(* Exact rational arithmetic.                                              *)
(***************************************************************************)
Abs(x) == IF x < 0 THEN -x ELSE x

RECURSIVE GCD(_, _)
GCD(a, b) == IF b = 0 THEN a ELSE GCD(b, a % b)

NormBy(n, d, g) == IF d < 0 THEN <<-(n \div g), -(d \div g)>> ELSE <<n \div g, d \div g>>

Norm(n, d) == NormBy(n, d, GCD(Abs(n), Abs(d)))

R(n) == <<n, 1>>

Zero == R(0)
One == R(1)
Hundred == R(100)

RMulBy(a, b, g1, g2) ==
    <<(a[1] \div g1) * (b[1] \div g2), (a[2] \div g2) * (b[2] \div g1)>>

RMul(a, b) ==
    IF a[1] = 0 \/ b[1] = 0 THEN Zero
    ELSE RMulBy(a, b, GCD(Abs(a[1]), b[2]), GCD(Abs(b[1]), a[2]))

RInv(a) == IF a[1] < 0 THEN <<-a[2], -a[1]>> ELSE <<a[2], a[1]>>

RDiv(a, b) == RMul(a, RInv(b))

RAddBy(a, b, g) ==
    Norm(a[1] * (b[2] \div g) + b[1] * (a[2] \div g), a[2] * (b[2] \div g))

RAdd(a, b) == RAddBy(a, b, GCD(a[2], b[2]))

RNeg(a) == <<-a[1], a[2]>>

RSub(a, b) == RAdd(a, RNeg(b))

RAbs(a) == <<Abs(a[1]), a[2]>>

RLtBy(a, b, g) == a[1] * (b[2] \div g) < b[1] * (a[2] \div g)

RLt(a, b) == RLtBy(a, b, GCD(a[2], b[2]))

RLe(a, b) == ~RLt(b, a)

RPos(a) == a[1] > 0

(***************************************************************************)
(* Python's round(x, 0) and round(x, 2): round half to even.               *)
(***************************************************************************)
RoundHalfEven(a, fl) ==
    IF 2 * (a[1] - fl * a[2]) < a[2] THEN fl
    ELSE IF 2 * (a[1] - fl * a[2]) > a[2] THEN fl + 1
    ELSE IF fl % 2 = 0 THEN fl ELSE fl + 1

RoundInt(a) == RoundHalfEven(a, a[1] \div a[2])

Round0(a) == R(RoundInt(a))

Round2(a) == Norm(RoundInt(RMul(a, Hundred)), 100)

(***************************************************************************)
(* Python dicts.                                                           *)
(***************************************************************************)
Get(d, k, default) == IF k \in DOMAIN d THEN d[k] ELSE default

DictMerge(a, b) ==
    [k \in (DOMAIN a) \cup (DOMAIN b) |-> IF k \in DOMAIN b THEN b[k] ELSE a[k]]

Without(d, k) == [x \in (DOMAIN d) \ {k} |-> d[x]]

Raise(type, msg) == [ok |-> FALSE, type |-> type, msg |-> msg]

Return(v) == [ok |-> TRUE, val |-> v]

(***************************************************************************)
(* calculate_media_performance(media, total_budget)                        *)
(***************************************************************************)
\* the numerator handed back when the denominator is not positive
GuardedDiv_numerator(num, den) == IF RPos(den) THEN RDiv(num, den) ELSE num

\* num / den if den > 0 else 0
GuardedDiv(num, den) == IF RPos(den) THEN RDiv(num, den) ELSE Zero

\* (num / den) * k if den > 0 else 0
GuardedRate(num, den, k) == IF RPos(den) THEN RMul(RDiv(num, den), k) ELSE Zero

\* the performance dict, from the values the function computed on its way
performance_record(media, media_budget, estimated_clicks, estimated_impressions, estimated_conversions, estimated_conversions_adjusted) ==
    [media_budget |-> media_budget,
     estimated_impressions |-> estimated_impressions,
     estimated_clicks |-> estimated_clicks,
     cpm |-> GuardedRate(media_budget, estimated_impressions, R(1000)),
     estimated_conversions |-> estimated_conversions,
     estimated_conversions_adjusted |-> estimated_conversions_adjusted,
     cpa |-> GuardedDiv(media_budget, estimated_conversions),
     cpa_adjusted |-> GuardedDiv(media_budget, estimated_conversions_adjusted),
     total_revenue |-> RMul(estimated_conversions, Get(media, "revenue_per_cv", Zero)),
     total_revenue_adjusted |->
         RMul(estimated_conversions_adjusted, Get(media, "revenue_per_cv", Zero)),
     roas |-> GuardedRate(RMul(estimated_conversions, Get(media, "revenue_per_cv", Zero)),
                          media_budget, Hundred),
     roas_adjusted |->
         GuardedRate(RMul(estimated_conversions_adjusted,
                          Get(media, "revenue_per_cv", Zero)),
                     media_budget, Hundred)]

\* the adjustment subtracted
adjusted_conversions_minus(media, estimated_conversions) ==
    RMul(estimated_conversions,
         RSub(One, RDiv(Get(media, "adjustment", Zero), Hundred)))

\* estimated_conversions * (1 + adjustment / 100)
adjusted_conversions(media, estimated_conversions) ==
    RMul(estimated_conversions,
         RAdd(One, RDiv(Get(media, "adjustment", Zero), Hundred)))

performance_of_clicks(media, media_budget, estimated_clicks, estimated_conversions) ==
    performance_record(media, media_budget, estimated_clicks,
                       RDiv(estimated_clicks, RDiv(media["ctr"], Hundred)),
                       estimated_conversions,
                       adjusted_conversions(media, estimated_conversions))

performance_of_budget(media, media_budget, estimated_clicks) ==
    performance_of_clicks(media, media_budget, estimated_clicks,
                          RMul(estimated_clicks, RDiv(Get(media, "cvr", Zero), Hundred)))

\* the ratio taken as a fraction already
media_budget_unscaled(media, budget) == RMul(budget, media["budget_ratio"])

\* media_budget = total_budget * (budget_ratio / 100)
media_budget_of(media, budget) == RMul(budget, RDiv(media["budget_ratio"], Hundred))

performance(media, budget) ==
    performance_of_budget(media, media_budget_of(media, budget),
                          RDiv(media_budget_of(media, budget), media["cpc"]))

\* the checks with budget_ratio <= 0 refused
media_precondition_positive_ratio(media, budget) ==
    IF RLe(budget, Zero) THEN "total_budget"
    ELSE IF RLe(Get(media, "budget_ratio", Zero), Zero) THEN "budget_ratio"
    ELSE IF RLe(Get(media, "cpc", Zero), Zero) THEN "cpc"
    ELSE IF RLe(Get(media, "ctr", Zero), Zero) THEN "ctr"
    ELSE "none"

\* the four checks at the head of calculate_media_performance: the argument
\* whose check raises ValueError, or "none"
media_precondition(media, budget) ==
    IF RLe(budget, Zero) THEN "total_budget"
    ELSE IF RLt(Get(media, "budget_ratio", Zero), Zero) THEN "budget_ratio"
    ELSE IF RLe(Get(media, "cpc", Zero), Zero) THEN "cpc"
    ELSE IF RLe(Get(media, "ctr", Zero), Zero) THEN "ctr"
    ELSE "none"

\* {**media, **performance}: a new dict ...
merged_result(media, perf) == DictMerge(media, perf)

\* media.update(performance): the merge written into the caller's dict
media_after_update(media, perf) == DictMerge(media, perf)

\* ... and the dict passed in, as the call leaves it
media_after_merge(media, perf) == media

performance_outcome(media, perf) ==
    [ok |-> TRUE, val |-> merged_result(media, perf),
     arg |-> media_after_merge(media, perf)]

\* [ok, val] or [ok, type, msg], and arg: the argument dict after the call
calculate_media_performance(media, budget) ==
    IF media_precondition(media, budget) # "none"
    THEN [ok |-> FALSE, type |-> "ValueError",
          msg |-> media_precondition(media, budget), arg |-> media]
    ELSE IF "budget_ratio" \notin DOMAIN media
    THEN [ok |-> FALSE, type |-> "KeyError", msg |-> "budget_ratio", arg |-> media]
    ELSE performance_outcome(media, performance(media, budget))

(***************************************************************************)
(* generate_scenarios(selected_media, total_budget, scenario_adjustment)   *)
(***************************************************************************)
NoResult == [none |-> TRUE]

EmptyScenarios == [conservative |-> <<>>, base |-> <<>>, aggressive |-> <<>>]

\* the copy keeps the cpa_adjusted of the base entry
set_cpa_adjusted_stale(m) == m

set_cpa_adjusted(m) ==
    [m EXCEPT !["cpa_adjusted"] =
        GuardedDiv(m["media_budget"], m["estimated_conversions_adjusted"])]

set_total_revenue_adjusted(m) ==
    [m EXCEPT !["total_revenue_adjusted"] =
        RMul(m["estimated_conversions_adjusted"], m["revenue_per_cv"])]

set_roas_adjusted(m) ==
    [m EXCEPT !["roas_adjusted"] =
        GuardedRate(m["total_revenue_adjusted"], m["media_budget"], Hundred)]

\* m['revenue_per_cv'] is a subscript: a missing key raises KeyError
rederive_revenue(m) ==
    IF "revenue_per_cv" \notin DOMAIN m
    THEN Raise("KeyError", "revenue_per_cv")
    ELSE Return(set_roas_adjusted(set_total_revenue_adjusted(m)))

\* cpa_adjusted, total_revenue_adjusted and roas_adjusted recomputed on a copy
\* m whose estimated_conversions_adjusted was just overwritten
rederived(m) == rederive_revenue(set_cpa_adjusted(m))

\* the conservative copy widened instead of narrowed
conservative_media_plus(media_performance, s) ==
    rederived([media_performance EXCEPT !["estimated_conversions_adjusted"] =
                   RMul(media_performance["estimated_conversions_adjusted"],
                        RAdd(One, RDiv(s, Hundred)))])

conservative_media(media_performance, s) ==
    rederived([media_performance EXCEPT !["estimated_conversions_adjusted"] =
                   RMul(media_performance["estimated_conversions_adjusted"],
                        RSub(One, RDiv(s, Hundred)))])

aggressive_media(media_performance, s) ==
    rederived([media_performance EXCEPT !["estimated_conversions_adjusted"] =
                   RMul(media_performance["estimated_conversions_adjusted"],
                        RAdd(One, RDiv(s, Hundred)))])

\* the placeholder without its error flag raised
error_media_unflagged(media, e) ==
    [name |-> Get(media, "name", "Unknown"),
     category |-> Get(media, "category", "N/A"),
     budget_ratio |-> Get(media, "budget_ratio", Zero),
     media_budget |-> Zero,
     cpm |-> Zero,
     cpc |-> Get(media, "cpc", Zero),
     ctr |-> Get(media, "ctr", Zero),
     cvr |-> Get(media, "cvr", Zero),
     estimated_impressions |-> Zero,
     estimated_clicks |-> Zero,
     estimated_conversions |-> Zero,
     estimated_conversions_adjusted |-> Zero,
     cpa_adjusted |-> Zero,
     revenue_per_cv |-> Get(media, "revenue_per_cv", Zero),
     total_revenue_adjusted |-> Zero,
     roas_adjusted |-> Zero,
     error |-> FALSE,
     error_message |-> <<e.type, e.msg>>]

error_media(media, e) ==
    [name |-> Get(media, "name", "Unknown"),
     category |-> Get(media, "category", "N/A"),
     budget_ratio |-> Get(media, "budget_ratio", Zero),
     media_budget |-> Zero,
     cpm |-> Zero,
     cpc |-> Get(media, "cpc", Zero),
     ctr |-> Get(media, "ctr", Zero),
     cvr |-> Get(media, "cvr", Zero),
     estimated_impressions |-> Zero,
     estimated_clicks |-> Zero,
     estimated_conversions |-> Zero,
     estimated_conversions_adjusted |-> Zero,
     cpa_adjusted |-> Zero,
     revenue_per_cv |-> Get(media, "revenue_per_cv", Zero),
     total_revenue_adjusted |-> Zero,
     roas_adjusted |-> Zero,
     error |-> TRUE,
     error_message |-> <<e.type, e.msg>>]

\* the handler written as "except ValueError"
caught_value_error_only(e) == e.type = "ValueError"

\* "except Exception": the exception classes the handler of the loop catches
caught(e) == e.type \in {"ValueError", "KeyError", "ZeroDivisionError", "TypeError"}

append_error(sc, em) ==
    [conservative |-> Append(sc.conservative, em),
     base |-> Append(sc.base, em),
     aggressive |-> Append(sc.aggressive, em)]

\* the except clause, entered with the lists as the try block left them
handled(sc, media, after, e) ==
    IF caught(e)
    THEN [raised |-> FALSE, sc |-> append_error(sc, error_media(media, e)), media |-> after]
    ELSE [raised |-> TRUE, sc |-> sc, media |-> after]

\* the try block after scenarios['conservative'].append(conservative_media)
after_conservative(sc, media, p, a) ==
    IF ~a.ok THEN handled(sc, media, p.arg, a)
    ELSE [raised |-> FALSE, sc |-> [sc EXCEPT !.aggressive = Append(@, a.val)],
          media |-> p.arg]

\* the try block after scenarios['base'].append(base_media)
after_base(sc, media, s, p, c) ==
    IF ~c.ok THEN handled(sc, media, p.arg, c)
    ELSE after_conservative([sc EXCEPT !.conservative = Append(@, c.val)], media, p,
                            aggressive_media(p.val, s))

\* the try block after media_performance = calculate_media_performance(...)
after_performance(sc, media, s, p) ==
    IF ~p.ok THEN handled(sc, media, p.arg, p)
    ELSE after_base([sc EXCEPT !.base = Append(@, p.val)], media, s, p,
                    conservative_media(p.val, s))

\* the body of the for loop on one media, from the lists sc built so far:
\* [raised, sc, media]; the appends made before an exception stay in the lists
scenario_iteration(sc, media, budget, s) ==
    after_performance(sc, media, s, calculate_media_performance(media, budget))

RECURSIVE scenario_loop(_, _, _, _, _)
loop_continue(it, medias, i, budget, s) ==
    IF it.raised
    THEN [raised |-> TRUE, scenarios |-> NoResult,
          medias |-> [medias EXCEPT ![i] = it.media]]
    ELSE scenario_loop(it.sc, [medias EXCEPT ![i] = it.media], i + 1, budget, s)

scenario_loop(sc, medias, i, budget, s) ==
    IF i > Len(medias) THEN [raised |-> FALSE, scenarios |-> sc, medias |-> medias]
    ELSE loop_continue(scenario_iteration(sc, medias[i], budget, s), medias, i, budget, s)

\* [raised, scenarios, medias]: medias is the caller's list after the call
generate_scenarios(medias, budget, s) ==
    scenario_loop(EmptyScenarios, medias, 1, budget, s)

(***************************************************************************)
(* calculate_performance(budget, adjusted_metrics)                         *)
(***************************************************************************)
performance_result(budget, cpc, ctr, cvr, clicks, conversions) ==
    [impressions |-> Round0(RDiv(clicks, ctr)),
     clicks |-> Round0(clicks),
     conversions |-> Round2(conversions),
     cpa |-> Round0(GuardedDiv(budget, conversions)),
     ctr |-> Round2(RMul(ctr, Hundred)),
     cvr |-> Round2(RMul(cvr, Hundred)),
     cpc |-> Round0(cpc)]

\* conversions taken from the click-through rate
performance_of_ctr(budget, cpc, ctr, cvr, clicks) ==
    performance_result(budget, cpc, ctr, cvr, clicks, RMul(clicks, ctr))

performance_of(budget, cpc, ctr, cvr, clicks) ==
    performance_result(budget, cpc, ctr, cvr, clicks, RMul(clicks, cvr))

\* the checks without the one on CVR
calculate_performance_unchecked_cvr(budget, metrics) ==
    IF RLe(metrics["CPC"], Zero) THEN Raise("ValueError", "CPC")
    ELSE IF RLe(metrics["CTR"], Zero) THEN Raise("ValueError", "CTR")
    ELSE IF RLe(budget, Zero) THEN Raise("ValueError", "Budget")
    ELSE Return(performance_of(budget, metrics["CPC"], metrics["CTR"], metrics["CVR"],
                               RDiv(budget, metrics["CPC"])))

calculate_performance(budget, metrics) ==
    IF RLe(metrics["CPC"], Zero) THEN Raise("ValueError", "CPC")
    ELSE IF RLe(metrics["CTR"], Zero) THEN Raise("ValueError", "CTR")
    ELSE IF RLt(metrics["CVR"], Zero) THEN Raise("ValueError", "CVR")
    ELSE IF RLe(budget, Zero) THEN Raise("ValueError", "Budget")
    ELSE Return(performance_of(budget, metrics["CPC"], metrics["CTR"], metrics["CVR"],
                               RDiv(budget, metrics["CPC"])))

(***************************************************************************)
(* The benchmark tables, which constants.py loads from benchmarks.json,    *)
(* and the functions that read them.  Python's None is the value None.     *)
(***************************************************************************)
None == [absent |-> TRUE]

EmptyDict == <<>>

SEASONALITY_COMMON ==
    [m \in 1..12 |-> IF m \in {11, 12} THEN <<6, 5>> ELSE IF m \in {1, 2} THEN <<4, 5>> ELSE One]

INDUSTRY_SEASON_WEIGHT ==
    "fashion" :> [high_months |-> {11}, low_months |-> {1},
                  high_multiplier |-> <<5, 4>>, low_multiplier |-> <<3, 4>>]

INDUSTRY_BASE_METRICS ==
    ("fashion" :> [CTR |-> <<1, 50>>, CPC |-> R(1000), CVR |-> <<1, 50>>])
    @@ ("finance" :> [CTR |-> <<1, 100>>, CPC |-> R(2000), CVR |-> <<3, 100>>])

\* the last channel's CTR multiplier brings every CTR below 0.005 %
MEDIA_MULTIPLIERS ==
    ("naver_SA" :> [CTR |-> <<6, 5>>, CPC |-> <<11, 10>>, CVR |-> One])
    @@ ("meta_DA" :> [CTR |-> <<1, 2>>, CPC |-> <<4, 5>>, CVR |-> <<4, 5>>])
    @@ ("banner_DA" :> [CTR |-> <<1, 10000>>, CPC |-> One, CVR |-> One])

\* the benchmark CTR of the last channel is 0.004 %, and it has no CPA entry
BENCHMARKS ==
    ("fashion" :> (("naver_SA" :> [cpc |-> R(1000), ctr |-> R(2), cvr |-> R(2),
                                   CPA |-> R(30000)])
                   @@ ("meta_DA" :> [cpc |-> R(500), ctr |-> R(1), cvr |-> R(1),
                                     CPA |-> R(50000)])
                   @@ ("banner_DA" :> [cpc |-> R(300), ctr |-> <<1, 250>>, cvr |-> R(1)])))
    @@ ("finance" :> ("naver_SA" :> [cpc |-> R(2000), ctr |-> R(1), cvr |-> R(3),
                                     CPA |-> R(60000)]))

\* SEASONALITY_COMMON.get(month, 0.0)
common_factor_zero(m) == Get(SEASONALITY_COMMON, m, Zero)

\* SEASONALITY_COMMON.get(month, 1.0)
common_factor(m) == Get(SEASONALITY_COMMON, m, One)

industry_multiplier(industry_season, m) ==
    IF m \in Get(industry_season, "high_months", {})
    THEN Get(industry_season, "high_multiplier", One)
    ELSE IF m \in Get(industry_season, "low_months", {})
         THEN Get(industry_season, "low_multiplier", One)
         ELSE One

calculate_seasonality(m, ind) ==
    Return(RMul(common_factor(m),
                industry_multiplier(Get(INDUSTRY_SEASON_WEIGHT, ind, EmptyDict), m)))

\* the tiers with each boundary value in the lower tier
calculate_budget_competition_factor_inclusive(b) ==
    IF RLe(b, R(10000000)) THEN <<9, 10>>
    ELSE IF RLe(b, R(50000000)) THEN One
    ELSE IF RLe(b, R(100000000)) THEN <<11, 10>>
    ELSE <<6, 5>>

calculate_budget_competition_factor(b) ==
    IF RLt(b, R(10000000)) THEN <<9, 10>>
    ELSE IF RLt(b, R(50000000)) THEN One
    ELSE IF RLt(b, R(100000000)) THEN <<11, 10>>
    ELSE <<6, 5>>

season_weight(season_factor, industry_season, m) ==
    IF m \in industry_season["high_months"]
    THEN RMul(season_factor, industry_season["high_multiplier"])
    ELSE IF m \in industry_season["low_months"]
         THEN RMul(season_factor, industry_season["low_multiplier"])
         ELSE season_factor

season_factor_of(ind, m) ==
    IF ind \in DOMAIN INDUSTRY_SEASON_WEIGHT
    THEN season_weight(common_factor(m), INDUSTRY_SEASON_WEIGHT[ind], m)
    ELSE common_factor(m)

\* the CPC scaled by the season as well
adjusted_cpc_seasonal(base, season_factor, competition_factor) ==
    RMul(RMul(base["CPC"], competition_factor), season_factor)

adjusted_cpc(base, season_factor, competition_factor) ==
    RMul(base["CPC"], competition_factor)

adjusted(base, season_factor, competition_factor) ==
    [CTR |-> RMul(base["CTR"], season_factor),
     CVR |-> RMul(base["CVR"], season_factor),
     CPC |-> adjusted_cpc(base, season_factor, competition_factor)]

apply_adjustments(ind, m, b, base) ==
    adjusted(base, season_factor_of(ind, m), calculate_budget_competition_factor(b))

media_base(base, multiplier) ==
    [CTR |-> RMul(base["CTR"], multiplier["CTR"]),
     CPC |-> RMul(base["CPC"], multiplier["CPC"]),
     CVR |-> RMul(base["CVR"], multiplier["CVR"])]

media_base_of(base, key) ==
    IF key \in DOMAIN MEDIA_MULTIPLIERS THEN media_base(base, MEDIA_MULTIPLIERS[key])
    ELSE base

get_media_adjusted_metrics(ind, key, m, b) ==
    IF ind \notin DOMAIN INDUSTRY_BASE_METRICS THEN Return(None)
    ELSE Return(apply_adjustments(ind, m, b, media_base_of(INDUSTRY_BASE_METRICS[ind], key)))

get_media_benchmarks(ind, key) ==
    Return(Get(Get(BENCHMARKS, ind, EmptyDict), key, None))

(***************************************************************************)
(* calculate_efficiency_grade(avg_cpa, avg_roas, total_conversions)        *)
(***************************************************************************)
\* the ROAS points with strict thresholds
roas_score_strict(roas) ==
    IF RLt(R(300), roas) THEN 40
    ELSE IF RLt(R(200), roas) THEN 30
    ELSE IF RLt(R(150), roas) THEN 20
    ELSE IF RLt(R(100), roas) THEN 10
    ELSE 0

roas_score(roas) ==
    IF RLe(R(300), roas) THEN 40
    ELSE IF RLe(R(200), roas) THEN 30
    ELSE IF RLe(R(150), roas) THEN 20
    ELSE IF RLe(R(100), roas) THEN 10
    ELSE 0

conversions_score(conversions) ==
    IF RLe(R(500), conversions) THEN 30
    ELSE IF RLe(R(300), conversions) THEN 25
    ELSE IF RLe(R(150), conversions) THEN 20
    ELSE IF RLe(R(50), conversions) THEN 10
    ELSE 0

cpa_thresholds_score(cpa) ==
    IF RLe(cpa, R(30000)) THEN 30
    ELSE IF RLe(cpa, R(40000)) THEN 25
    ELSE IF RLe(cpa, R(50000)) THEN 20
    ELSE IF RLe(cpa, R(70000)) THEN 10
    ELSE 0

\* the CPA points without the avg_cpa > 0 guard
cpa_score_unguarded(cpa) == cpa_thresholds_score(cpa)

cpa_score(cpa) == IF RPos(cpa) THEN cpa_thresholds_score(cpa) ELSE 0

efficiency_score(cpa, roas, conversions) ==
    roas_score(roas) + conversions_score(conversions) + cpa_score(cpa)

grade_of(score) ==
    IF score >= 80 THEN "S"
    ELSE IF score >= 60 THEN "A"
    ELSE IF score >= 40 THEN "B"
    ELSE "C"

calculate_efficiency_grade(cpa, roas, conversions) ==
    grade_of(efficiency_score(cpa, roas, conversions))

(***************************************************************************)
(* generate_recommendations(scenarios, budget) of src/modules/insights.py. *)
(* A recommendation is the record of the figures its message is built of.  *)
(***************************************************************************)
RISK_RATIO_THRESHOLD == 50

cpa_of(m) == Get(m, "cpa", Zero)

RECURSIVE SumGet(_, _, _)
SumGet(entries, f, n) ==
    IF n = 0 THEN Zero ELSE RAdd(SumGet(entries, f, n - 1), Get(entries[n], f, Zero))

\* sorted() is stable: m goes behind every entry whose cpa is not greater
RECURSIVE insert_by_cpa(_, _)
insert_by_cpa(sorted, m) ==
    IF sorted = <<>> THEN <<m>>
    ELSE IF RLt(cpa_of(m), cpa_of(Head(sorted))) THEN <<m>> \o sorted
    ELSE <<Head(sorted)>> \o insert_by_cpa(Tail(sorted), m)

RECURSIVE sorted_by_cpa(_, _)
sorted_by_cpa(medias, n) ==
    IF n = 0 THEN <<>> ELSE insert_by_cpa(sorted_by_cpa(medias, n - 1), medias[n])

positive_cpa(media_data) == SelectSeq(media_data, LAMBDA m : RPos(cpa_of(m)))

sorted_media_of(media_data) ==
    sorted_by_cpa(positive_cpa(media_data), Len(positive_cpa(media_data)))

shift_message(best, worst, shift_ratio, additional_conversions, current_avg_cpa, new_avg_cpa) ==
    [type |-> "info", icon |-> "shift",
     worst |-> worst["name"], worst_ratio |-> worst["budget_ratio"],
     worst_ratio_after |-> RSub(worst["budget_ratio"], shift_ratio),
     best |-> best["name"], best_ratio |-> best["budget_ratio"],
     best_ratio_after |-> RAdd(best["budget_ratio"], shift_ratio),
     additional_conversions |-> additional_conversions,
     cpa_improvement |-> RSub(current_avg_cpa, new_avg_cpa)]

shift_of_total(best, worst, b, shift_ratio, additional_conversions, current_total_cv) ==
    shift_message(best, worst, shift_ratio, additional_conversions,
                  GuardedDiv(b, current_total_cv),
                  GuardedDiv(b, RAdd(current_total_cv, additional_conversions)))

shift_of_ratio(best, worst, b, shift_ratio, current_total_cv) ==
    IF RPos(Get(best, "cpc", Zero)) /\ RPos(RDiv(Get(best, "cvr", Zero), Hundred))
    THEN <<shift_of_total(best, worst, b, shift_ratio,
                          RMul(RDiv(RMul(b, RDiv(shift_ratio, Hundred)), best["cpc"]),
                               RDiv(best["cvr"], Hundred)),
                          current_total_cv)>>
    ELSE <<>>

\* the shift proposed as soon as the worst CPA exceeds the best
shift_recommendation_any_gap(sorted_media, media_data, b) ==
    IF Len(sorted_media) >= 2
       /\ RLt(sorted_media[1]["cpa"], sorted_media[Len(sorted_media)]["cpa"])
    THEN shift_of_ratio(sorted_media[1], sorted_media[Len(sorted_media)], b,
                        RMul(Get(sorted_media[Len(sorted_media)], "budget_ratio", Zero), <<1, 10>>),
                        SumGet(media_data, "estimated_conversions_adjusted", Len(media_data)))
    ELSE <<>>

shift_recommendation(sorted_media, media_data, b) ==
    IF Len(sorted_media) >= 2
       /\ RLt(RMul(sorted_media[1]["cpa"], <<3, 2>>), sorted_media[Len(sorted_media)]["cpa"])
    THEN shift_of_ratio(sorted_media[1], sorted_media[Len(sorted_media)], b,
                        RMul(Get(sorted_media[Len(sorted_media)], "budget_ratio", Zero), <<1, 10>>),
                        SumGet(media_data, "estimated_conversions_adjusted", Len(media_data)))
    ELSE <<>>

increase_message(media, increase_budget, add_cv) ==
    [type |-> "info", icon |-> "increase",
     name |-> Get(media, "name", "media"), cpa |-> cpa_of(media),
     ratio |-> Get(media, "budget_ratio", Zero),
     ratio_after |-> RAdd(Get(media, "budget_ratio", Zero), R(10)),
     add_cv |-> add_cv, add_cpa_impact |-> GuardedDiv(increase_budget, add_cv)]

increase_recommendation(media, b) ==
    IF /\ RLt(Get(media, "budget_ratio", Zero), R(20)) /\ RPos(cpa_of(media))
       /\ RPos(Get(media, "cpc", Zero)) /\ RPos(RDiv(Get(media, "cvr", Zero), Hundred))
    THEN <<increase_message(media, RMul(b, <<1, 10>>),
                            RMul(RDiv(RMul(b, <<1, 10>>), media["cpc"]),
                                 RDiv(media["cvr"], Hundred)))>>
    ELSE <<>>

RECURSIVE increase_recommendations(_, _, _)
increase_recommendations(medias, i, b) ==
    IF i > Len(medias) \/ i > 2 THEN <<>>
    ELSE increase_recommendation(medias[i], b) \o increase_recommendations(medias, i + 1, b)

\* ratio >= RISK_RATIO_THRESHOLD
exceeds_threshold_inclusive(ratio) == RLe(R(RISK_RATIO_THRESHOLD), ratio)

\* ratio > RISK_RATIO_THRESHOLD
exceeds_threshold(ratio) == RLt(R(RISK_RATIO_THRESHOLD), ratio)

dependency_warning(media) ==
    IF exceeds_threshold(Get(media, "budget_ratio", Zero))
    THEN <<[type |-> "warning", icon |-> "dependency",
            name |-> Get(media, "name", "media"),
            ratio |-> Get(media, "budget_ratio", Zero)]>>
    ELSE <<>>

RECURSIVE dependency_warnings(_, _)
dependency_warnings(media_data, i) ==
    IF i > Len(media_data) THEN <<>>
    ELSE dependency_warning(media_data[i]) \o dependency_warnings(media_data, i + 1)

roas_message(media, needed_revenue, current_revenue) ==
    [type |-> "warning", icon |-> "roas",
     name |-> Get(media, "name", "media"), roas |-> Get(media, "roas", Zero),
     current_revenue |-> current_revenue, needed_revenue |-> needed_revenue,
     revenue_gap |-> RSub(needed_revenue, current_revenue)]

\* 0 < roas <= 150
roas_warning_inclusive(media) ==
    IF RPos(Get(media, "roas", Zero)) /\ RLe(Get(media, "roas", Zero), R(150))
    THEN <<roas_message(media, RMul(cpa_of(media), <<3, 2>>),
                        Get(media, "revenue_per_conversion", Zero))>>
    ELSE <<>>

roas_warning(media) ==
    IF RPos(Get(media, "roas", Zero)) /\ RLt(Get(media, "roas", Zero), R(150))
    THEN <<roas_message(media, RMul(cpa_of(media), <<3, 2>>),
                        Get(media, "revenue_per_conversion", Zero))>>
    ELSE <<>>

RECURSIVE roas_warnings(_, _)
roas_warnings(media_data, i) ==
    IF i > Len(media_data) THEN <<>>
    ELSE roas_warning(media_data[i]) \o roas_warnings(media_data, i + 1)

volume_recommendation(b, conversions) ==
    IF RPos(conversions) /\ RLt(conversions, R(200))
    THEN <<[type |-> "info", icon |-> "volume", total_conversions |-> conversions,
            budget |-> b, new_budget |-> RMul(b, <<13, 10>>),
            estimated_new_cv |-> RMul(conversions, <<13, 10>>)]>>
    ELSE <<>>

recommendations_of(media_data, sorted_media, b) ==
    shift_recommendation(sorted_media, media_data, b)
    \o increase_recommendations(sorted_media, 1, b)
    \o dependency_warnings(media_data, 1)
    \o roas_warnings(media_data, 1)
    \o volume_recommendation(b, SumGet(media_data, "estimated_conversions_adjusted",
                                       Len(media_data)))

generate_recommendations(sc, b) ==
    IF Get(sc, "base", <<>>) = <<>> THEN <<>>
    ELSE recommendations_of(sc["base"], sorted_media_of(sc["base"]), b)

(***************************************************************************)
(* generate_ai_insights(result_data, industry, month, goal), as defined in *)
(* src/modules/insights.py and as defined again in src/app.py, which is    *)
(* the definition the results page calls. An insight is the record of its  *)
(* kind and of the figures its message is built of.                        *)
(***************************************************************************)
volume_insight(conversions) ==
    IF RLe(R(1000), conversions)
    THEN <<[type |-> "success", title |-> "volume_high", total_conversions |-> conversions]>>
    ELSE IF RLt(conversions, R(100))
    THEN <<[type |-> "warning", title |-> "volume_low", total_conversions |-> conversions]>>
    ELSE <<>>

\* the keys of the industry's benchmarks whose CPA entry is positive
cpa_keys(media_benchmarks) ==
    {k \in DOMAIN media_benchmarks : RPos(Get(media_benchmarks[k], "CPA", Zero))}

RECURSIVE sum_cpa(_, _)
sum_cpa(media_benchmarks, keys) ==
    IF keys = {} THEN Zero
    ELSE RAdd(media_benchmarks[CHOOSE k \in keys : TRUE]["CPA"],
              sum_cpa(media_benchmarks, keys \ {CHOOSE k \in keys : TRUE}))

mean_cpa(media_benchmarks, keys) ==
    IF keys # {} THEN RDiv(sum_cpa(media_benchmarks, keys), R(Cardinality(keys)))
    ELSE R(50000)

\* sum(cpa_values) / len(cpa_values) if cpa_values else 50000
industry_avg_cpa(ind) ==
    mean_cpa(Get(BENCHMARKS, ind, EmptyDict), cpa_keys(Get(BENCHMARKS, ind, EmptyDict)))

\* the table written out in src/app.py
app_industry_avg_cpa(ind) ==
    Get(("insurance" :> R(60000)) @@ ("finance" :> R(50000)) @@ ("fashion" :> R(35000))
            @@ ("it_tech" :> R(45000)),
        ind, R(50000))

cpa_insight(cpa, benchmark_cpa) ==
    IF ~RPos(cpa) THEN <<>>
    ELSE IF RLt(cpa, RMul(benchmark_cpa, <<4, 5>>))
    THEN <<[type |-> "success", title |-> "cpa_low", avg_cpa |-> cpa,
            industry_avg_cpa |-> benchmark_cpa]>>
    ELSE IF RLt(RMul(benchmark_cpa, <<13, 10>>), cpa)
    THEN <<[type |-> "error", title |-> "cpa_high", avg_cpa |-> cpa,
            industry_avg_cpa |-> benchmark_cpa]>>
    ELSE <<>>

\* the budget_ratio of the entries of one category, summed
category_ratio(media_data, type) ==
    SumGet(SelectSeq(media_data, LAMBDA m : Get(m, "category", "") = type), "budget_ratio",
           Len(SelectSeq(media_data, LAMBDA m : Get(m, "category", "") = type)))

concentration_insight(sa_ratio, da_ratio) ==
    IF RLt(R(RISK_RATIO_THRESHOLD), RAbs(RSub(sa_ratio, da_ratio)))
    THEN <<[type |-> "info", title |-> "concentration",
            dominant |-> IF RLt(da_ratio, sa_ratio) THEN "SA" ELSE "DA"]>>
    ELSE <<>>

\* SEASONALITY_COMMON.get(month, 1.0) against 1.15 and 0.85
season_insight(m, season_factor) ==
    IF RLe(<<23, 20>>, season_factor)
    THEN <<[type |-> "success", title |-> "peak_season", month |-> m]>>
    ELSE IF RLe(season_factor, <<17, 20>>)
    THEN <<[type |-> "warning", title |-> "low_season", month |-> m]>>
    ELSE <<>>

goal_insight(g, sa_ratio) ==
    IF g = "conversion" /\ RLt(sa_ratio, R(60))
    THEN <<[type |-> "info", title |-> "goal_mismatch"]>>
    ELSE <<>>

roas_insight(roas) ==
    IF ~RPos(roas) THEN <<>>
    ELSE IF RLe(R(200), roas)
    THEN <<[type |-> "success", title |-> "roas_high", avg_roas |-> roas]>>
    ELSE IF RLt(roas, R(100))
    THEN <<[type |-> "error", title |-> "roas_low", avg_roas |-> roas]>>
    ELSE <<>>

insights_of_totals(media_data, b, conversions, revenue, benchmark_cpa, m, g) ==
    volume_insight(conversions)
    \o cpa_insight(GuardedDiv(b, conversions), benchmark_cpa)
    \o concentration_insight(category_ratio(media_data, "SA"), category_ratio(media_data, "DA"))
    \o season_insight(m, IF m \in DOMAIN SEASONALITY_COMMON THEN SEASONALITY_COMMON[m] ELSE One)
    \o goal_insight(g, category_ratio(media_data, "SA"))
    \o roas_insight(GuardedRate(revenue, b, Hundred))

insights_of(media_data, b, benchmark_cpa, m, g) ==
    insights_of_totals(media_data, b,
                       SumGet(media_data, "estimated_conversions_adjusted", Len(media_data)),
                       SumGet(media_data, "total_revenue_adjusted", Len(media_data)),
                       benchmark_cpa, m, g)

\* result_data: [scenarios, budget]
generate_ai_insights(result_data, ind, m, g) ==
    insights_of(result_data.scenarios["base"], result_data.budget, industry_avg_cpa(ind), m, g)

app_generate_ai_insights(result_data, ind, m, g) ==
    insights_of(result_data.scenarios["base"], result_data.budget, app_industry_avg_cpa(ind),
                m, g)

(***************************************************************************)
(* The run buttons of src/app.py (auto generation, manual input,           *)
(* spreadsheet upload) and the modes of src/media_mix_simulator.py         *)
(* (detailed input, AI prediction): the ratio gate of each entry path and  *)
(* the computation it starts.                                              *)
(***************************************************************************)
TOLERANCE == <<1, 10>>

SEASONALITY == [m \in 1..12 |-> IF m \in {11, 12} THEN <<6, 5>> ELSE One]

\* the industry and the month selected on the page
RunIndustry == "fashion"

RunMonth == 6

\* '_SA' in media_key, '_DA' in media_key, '_VA' in media_key
KeyType(key) ==
    IF key \in {"naver_SA"} THEN "SA" ELSE IF key \in {"meta_DA", "banner_DA", "kakao_DA"} THEN "DA" ELSE "VA"

\* round(x, 1)
Round1(a) == Norm(RoundInt(RMul(a, R(10))), 10)

\* int(x)
Trunc(a) == IF a[1] >= 0 THEN a[1] \div a[2] ELSE -((-a[1]) \div a[2])

apply_budget_adjustment(cpc, b) ==
    IF RLe(b, R(10000000)) THEN R(Trunc(RMul(cpc, <<9, 10>>)))
    ELSE IF RLe(b, R(50000000)) THEN R(Trunc(cpc))
    ELSE IF RLe(b, R(100000000)) THEN R(Trunc(RMul(cpc, <<11, 10>>)))
    ELSE R(Trunc(RMul(cpc, <<6, 5>>)))

total_ratio_of(config) == SumGet(config, "budget_ratio", Len(config))

equal_config(config) ==
    [i \in DOMAIN config |-> [config[i] EXCEPT !["budget_ratio"] = RDiv(Hundred, R(Len(config)))]]

rounded_config(config, total_ratio) ==
    [i \in DOMAIN config |->
        [config[i] EXCEPT !["budget_ratio"] = Round1(RMul(RDiv(@, total_ratio), Hundred))]]

remainder_to_last(config, current_sum) ==
    IF RLt(<<1, 100>>, RAbs(RSub(current_sum, Hundred)))
    THEN [config EXCEPT ![Len(config)]["budget_ratio"] = RAdd(@, RSub(Hundred, current_sum))]
    ELSE config

corrected_config(config) == remainder_to_last(config, total_ratio_of(config))

normalized_config(config, total_ratio) ==
    IF total_ratio = Zero THEN equal_config(config)
    ELSE corrected_config(rounded_config(config, total_ratio))

\* disabled = not can_execute and not auto_normalize_enabled
button_disabled(config, total_ratio, normalize) ==
    /\ ~(RLt(RAbs(RSub(total_ratio, Hundred)), TOLERANCE) /\ Len(config) > 0)
    /\ ~normalize

\* [stop, config]: st.stop(), or the ratios the run goes on with
auto_gate(config, total_ratio, normalize) ==
    IF config = <<>> THEN [stop |-> TRUE, config |-> config]
    ELSE IF RLe(TOLERANCE, RAbs(RSub(total_ratio, Hundred)))
         THEN IF normalize
              THEN [stop |-> FALSE, config |-> normalized_config(config, total_ratio)]
              ELSE [stop |-> TRUE, config |-> config]
         ELSE [stop |-> FALSE, config |-> config]

auto_media(key, benchmark, user_ratio, b) ==
    [name |-> key,
     category |-> KeyType(key),
     budget_ratio |-> user_ratio,
     cpc |-> apply_budget_adjustment(benchmark["cpc"], b),
     ctr |-> Round2(RMul(benchmark["ctr"], SEASONALITY[RunMonth])),
     cvr |-> Round2(RMul(benchmark["cvr"], SEASONALITY[RunMonth])),
     revenue_per_cv |-> IF KeyType(key) = "SA" THEN R(100000) ELSE R(80000),
     adjustment |-> Zero]

\* a channel without benchmark is skipped
auto_entry(c, benchmark, b) ==
    IF benchmark = None THEN <<>>
    ELSE <<auto_media(c["name"], benchmark, c["budget_ratio"], b)>>

RECURSIVE auto_selected_media(_, _, _)
auto_selected_media(config, i, b) ==
    IF i > Len(config) THEN <<>>
    ELSE auto_entry(config[i], get_media_benchmarks(RunIndustry, config[i]["name"]).val, b)
         \o auto_selected_media(config, i + 1, b)

with_adjustment(medias, a) ==
    [i \in DOMAIN medias |-> [medias[i] EXCEPT !["adjustment"] = a]]

performances(medias, b) ==
    [i \in DOMAIN medias |-> calculate_media_performance(medias[i], b)]

raised_in(ps) == \E i \in DOMAIN ps : ~ps[i].ok

values_of(ps) == [i \in DOMAIN ps |-> ps[i].val]

\* the loop over scenarios_data, which has no try of its own: [stored] or
\* [stored, scenarios]
loop_outcome(conservative, base, aggressive) ==
    IF raised_in(conservative) \/ raised_in(base) \/ raised_in(aggressive)
    THEN [stored |-> FALSE]
    ELSE [stored |-> TRUE,
          scenarios |-> [conservative |-> values_of(conservative), base |-> values_of(base),
                         aggressive |-> values_of(aggressive)]]

scenario_performances(medias, b) ==
    loop_outcome(performances(with_adjustment(medias, R(-5)), b),
                 performances(with_adjustment(medias, R(0)), b),
                 performances(with_adjustment(medias, R(10)), b))

\* goal 1: awareness, 2: conversion, 3: balance
sa_ratio_of(goal_choice) ==
    IF goal_choice = 1 THEN <<2, 5>> ELSE IF goal_choice = 2 THEN <<7, 10>> ELSE <<1, 2>>

da_ratio_of(goal_choice) ==
    IF goal_choice = 1 THEN <<3, 5>> ELSE IF goal_choice = 2 THEN <<3, 10>> ELSE <<1, 2>>

keys_of_type(config, type) == SelectSeq(config, LAMBDA c : KeyType(c["name"]) = type)

ai_media(key, type, revenue, budget_per_media, b, metrics) ==
    [name |-> key,
     category |-> type,
     budget_ratio |-> RMul(RDiv(budget_per_media, b), Hundred),
     cpc |-> Round0(metrics["CPC"]),
     ctr |-> Round2(RMul(metrics["CTR"], Hundred)),
     cvr |-> Round2(RMul(metrics["CVR"], Hundred)),
     revenue_per_cv |-> revenue,
     adjustment |-> Zero]

ai_entry(key, type, revenue, budget_per_media, b, metrics) ==
    IF metrics = None THEN <<>>
    ELSE <<ai_media(key, type, revenue, budget_per_media, b, metrics)>>

RECURSIVE ai_media_of_type(_, _, _, _, _, _)
ai_media_of_type(keys, i, type, revenue, budget_per_media, b) ==
    IF i > Len(keys) THEN <<>>
    ELSE ai_entry(keys[i]["name"], type, revenue, budget_per_media, b,
                  get_media_adjusted_metrics(RunIndustry, keys[i]["name"], RunMonth,
                                             budget_per_media).val)
         \o ai_media_of_type(keys, i + 1, type, revenue, budget_per_media, b)

ai_share(keys, type, revenue, type_budget, b) ==
    IF keys = <<>> THEN <<>>
    ELSE ai_media_of_type(keys, 1, type, revenue, RDiv(type_budget, R(Len(keys))), b)

ai_video_share(keys, da_budget, b) ==
    IF keys # <<>> /\ RPos(da_budget)
    THEN ai_media_of_type(keys, 1, "VA", R(70000),
                          RDiv(RMul(da_budget, <<1, 5>>), R(Len(keys))), b)
    ELSE <<>>

ai_mix(config, sa_budget, da_budget, b) ==
    ai_share(keys_of_type(config, "SA"), "SA", R(100000), sa_budget, b)
    \o ai_share(keys_of_type(config, "DA"), "DA", R(80000), da_budget, b)
    \o ai_video_share(keys_of_type(config, "VA"), da_budget, b)

ai_normalized(medias, total_ratio) ==
    [i \in DOMAIN medias |->
        [medias[i] EXCEPT !["budget_ratio"] = RMul(RDiv(@, total_ratio), Hundred)]]

ai_normalized_mix(medias) == ai_normalized(medias, total_ratio_of(medias))

ai_selected_media(config, goal_choice, b) ==
    ai_normalized_mix(ai_mix(config, RMul(b, sa_ratio_of(goal_choice)),
                             RMul(b, da_ratio_of(goal_choice)), b))

(***************************************************************************)
(* The inputs the model draws.                                             *)
(***************************************************************************)
\* a channel as the input forms build it (every field present, all valid)
BaseChannel ==
    [category |-> "SA", budget_ratio |-> R(100), cpc |-> R(1000), ctr |-> R(2),
     cvr |-> R(2), revenue_per_cv |-> R(50000), adjustment |-> R(0)]

ValidChannels ==
    {BaseChannel,
     [BaseChannel EXCEPT !.budget_ratio = R(60), !.adjustment = R(10)],
     [BaseChannel EXCEPT !.budget_ratio = R(40), !.cvr = R(0), !.category = "DA"],
     [BaseChannel EXCEPT !.adjustment = R(-100)]}

\* one field out of its range
OutOfRangeChannels ==
    {[BaseChannel EXCEPT !.cpc = R(0)],
     [BaseChannel EXCEPT !.ctr = R(0)],
     [BaseChannel EXCEPT !.budget_ratio = R(-10)],
     [BaseChannel EXCEPT !.budget_ratio = R(0)],
     [BaseChannel EXCEPT !.cvr = R(-1)]}

\* one field missing from the record
DroppedFields == {"budget_ratio", "cpc", "cvr", "revenue_per_cv", "adjustment"}

IncompleteChannels == {Without(BaseChannel, f) : f \in DroppedFields}

ChannelPool == ValidChannels \cup OutOfRangeChannels \cup IncompleteChannels

\* the i-th channel of a list carries the name i
Named(ch, i) == [name |-> i] @@ ch

MediaLists ==
    UNION {{[i \in 1..n |-> Named(f[i], i)] : f \in [1..n -> ChannelPool]}
               : n \in 0..MaxChannels}

TotalBudgets == {R(-1000), R(0), R(10000000)}

ScenarioAdjustments == {R(0), R(10), R(100)}

PerfBudgets == {R(-1000), R(0), R(1000), R(12345), R(30000), R(100000)}

PerfCPC == {R(-10), R(0), R(70), R(900), R(1000)}

PerfCTR == {R(0), <<1, 50>>, <<3, 200>>}

PerfCVR == {<<-1, 100>>, R(0), <<1, 50>>, <<3, 1000>>}

IdleMetrics == [CPC |-> Zero, CTR |-> Zero, CVR |-> Zero]

\* industries: in every table, in the base metrics only, in no table
Industries == {"fashion", "finance", "unknown"}

\* months of the high, plain and low season, and a month outside 1..12
Months == {1, 6, 11, 13}

MediaKeys == {"naver_SA", "meta_DA", "tv_VA"}

\* budgets at, just below and just above each tier boundary
Budgets ==
    {R(0), R(9999999), R(10000000), R(10000001), R(49999999), R(50000000),
     R(99999999), R(100000000), R(100000001)}

BaseMetrics ==
    {[CTR |-> <<1, 50>>, CPC |-> R(1000), CVR |-> <<1, 50>>],
     [CTR |-> <<3, 200>>, CPC |-> R(70), CVR |-> Zero]}

\* average CPAs at and next to each threshold, none (0) and a negative one
GradeCPAs ==
    {R(-1), R(0), R(1), R(25000), R(30000), R(30001), R(40000), R(40001),
     R(50000), R(50001), R(70000), R(70001)}

GradeROAS ==
    {R(0), R(99), R(100), R(149), R(150), <<399, 2>>, R(200), R(299), R(300), R(320)}

GradeConversions ==
    {R(0), R(49), R(50), R(149), R(150), R(299), R(300), <<999, 2>>, R(500), R(600)}

\* channels of the results page: CPA 50,000 at 60%, CPA 25,000 at 40%, a
\* channel at exactly 50%, a cheap one at 10%, one that fails at 60%, one
\* without revenue_per_cv at 60%, one without conversions at 40%, one with
\* CPA 37,500 and ROAS exactly 150 at 30%
InsightChannels ==
    {[BaseChannel EXCEPT !.budget_ratio = R(60)],
     [BaseChannel EXCEPT !.budget_ratio = R(40), !.cpc = R(500)],
     [BaseChannel EXCEPT !.budget_ratio = R(50)],
     [BaseChannel EXCEPT !.budget_ratio = R(10), !.cpc = R(250)],
     [BaseChannel EXCEPT !.budget_ratio = R(60), !.cpc = R(0)],
     Without([BaseChannel EXCEPT !.budget_ratio = R(60)], "revenue_per_cv"),
     [BaseChannel EXCEPT !.budget_ratio = R(40), !.cvr = R(0)],
     [BaseChannel EXCEPT !.budget_ratio = R(30), !.cpc = R(750), !.revenue_per_cv = R(56250)]}

InsightLists ==
    UNION {{[i \in 1..n |-> Named(f[i], i)] : f \in [1..n -> InsightChannels]}
               : n \in 0..MaxChannels}

InsightBudget == R(1000000)

\* the entry paths of a run
Modes == {"auto", "manual", "upload", "cli", "cli_ai"}

\* the channels of the auto-generation page, in page order; the last has no
\* benchmark in the industry
AutoMedia == <<"naver_SA", "meta_DA", "banner_DA", "kakao_DA">>

AutoRatios == {R(0), R(30), R(40), R(60), R(100)}

\* per channel of the page: its ratio, or <<>> when it is not active
AutoChoices ==
    {f \in [DOMAIN AutoMedia -> AutoRatios \cup {<<>>}] :
        Cardinality({i \in DOMAIN AutoMedia : f[i] # <<>>}) <= MaxChannels}

RECURSIVE active_config(_, _)
active_config(f, i) ==
    IF i > Len(AutoMedia) THEN <<>>
    ELSE (IF f[i] = <<>> THEN <<>> ELSE <<[name |-> AutoMedia[i], budget_ratio |-> f[i]]>>)
         \o active_config(f, i + 1)

AutoConfigs == {active_config(f, 1) : f \in AutoChoices}

\* what the input form of the manual page can hold
FormChannels ==
    {BaseChannel,
     [BaseChannel EXCEPT !.budget_ratio = R(60)],
     [BaseChannel EXCEPT !.budget_ratio = R(40), !.category = "DA"],
     [BaseChannel EXCEPT !.budget_ratio = R(30)]}

\* what a spreadsheet row or the CLI prompts can hold: a CPC of 0 as well
SheetChannels == FormChannels \cup {[BaseChannel EXCEPT !.budget_ratio = R(40), !.cpc = R(0)]}

FormLists ==
    UNION {{[i \in 1..n |-> Named(f[i], i)] : f \in [1..n -> FormChannels]}
               : n \in 1..MaxChannels}

SheetLists ==
    UNION {{[i \in 1..n |-> Named(f[i], i)] : f \in [1..n -> SheetChannels]}
               : n \in 1..MaxChannels}

\* the channels of MEDIA_MULTIPLIERS, in table order
AiMedia == <<"naver_SA", "meta_DA", "banner_DA">>

\* the channels the user did not exclude
AiConfigs ==
    {SelectSeq([i \in DOMAIN AiMedia |-> [name |-> AiMedia[i]]],
               LAMBDA c : c["name"] \notin excluded) : excluded \in SUBSET {"naver_SA", "meta_DA", "banner_DA"}}

RunConfigs(m) ==
    IF m = "auto" THEN AutoConfigs
    ELSE IF m = "manual" THEN FormLists
    ELSE IF m = "cli_ai" THEN AiConfigs
    ELSE SheetLists

RunBudget == R(10000000)

\* channels every field of which is in range: plain, without conversions
\* (cvr 0), fully adjusted away (adjustment -100), without budget (ratio 0)
DegenerateChannels ==
    {[BaseChannel EXCEPT !.budget_ratio = R(60)],
     [BaseChannel EXCEPT !.budget_ratio = R(40), !.cvr = R(0)],
     [BaseChannel EXCEPT !.adjustment = R(-100)],
     [BaseChannel EXCEPT !.budget_ratio = R(0)]}

DegenerateLists ==
    UNION {{[i \in 1..n |-> Named(f[i], i)] : f \in [1..n -> DegenerateChannels]}
               : n \in 1..MaxChannels}

DegenerateCVR == {<<-1, 100>>, R(0), <<1, 50>>}

\* industries: with benchmark CPA entries and in the table of the page, with
\* neither, in the table of the page only
InsightIndustries == {"fashion", "finance", "unknown", "insurance"}

InsightMonths == {1, 6, 11}

\* the goals of the page: conversion, balance
Goals == {"conversion", "balance"}

\* the ratios a channel of the page is set to
PageRatios == {R(0), R(1), R(4), R(50)}

\* the channels of the page that can be active, in page order
PageMedia == <<"naver_SA", "meta_DA", "google_SA", "kakao_DA", "daum_DA">>

\* the first n channels active, with any of the ratios
NormalizeConfigs ==
    UNION {{[i \in 1..n |-> [name |-> PageMedia[i], budget_ratio |-> f[i]]]
                : f \in [1..n -> PageRatios]} : n \in 1..MaxActive}

\* the variables of a specification that is not running
ScenIdle ==
    /\ selected_media = <<>>
    /\ total_budget = Zero
    /\ scenario_adjustment = Zero
    /\ scenarios = NoResult
    /\ prev_scenarios = NoResult
    /\ gen_state = "idle"

PerfIdle ==
    /\ perf_budget = Zero
    /\ adjusted_metrics = IdleMetrics
    /\ perf_result = NoResult

BenchIdle ==
    /\ arg_industry = "unknown"
    /\ arg_month = 1
    /\ arg_budget = Zero
    /\ arg_media_key = "tv_VA"
    /\ arg_base_metrics = IdleMetrics
    /\ bench_call = "none"
    /\ bench_result = NoResult

GradeIdle ==
    /\ avg_cpa = Zero
    /\ avg_roas = Zero
    /\ total_conversions = Zero
    /\ grade = "none"

RunIdle ==
    /\ mode = "none"
    /\ media_config = <<>>
    /\ auto_normalize = TRUE
    /\ run_state = "idle"

InsightsIdle ==
    /\ recommendations = NoResult
    /\ goal = "none"
    /\ insights = NoResult

(***************************************************************************)
(* The scenario generator as a state machine: the caller holds a channel   *)
(* list, a budget and a width, and calls generate_scenarios on them.       *)
(***************************************************************************)
Init ==
    /\ selected_media \in MediaLists
    /\ total_budget \in TotalBudgets
    /\ scenario_adjustment \in ScenarioAdjustments
    /\ scenarios = NoResult
    /\ prev_scenarios = NoResult
    /\ gen_state = "idle"
    /\ PerfIdle /\ BenchIdle /\ GradeIdle /\ RunIdle /\ InsightsIdle

GenerateScenarios ==
    \E g \in {generate_scenarios(selected_media, total_budget, scenario_adjustment)} :
        /\ selected_media' = g.medias
        /\ scenarios' = g.scenarios
        /\ prev_scenarios' = scenarios
        /\ gen_state' = IF g.raised THEN "raised" ELSE "returned"
        /\ UNCHANGED <<total_budget, scenario_adjustment>>
        /\ UNCHANGED <<perf_vars, bench_vars, grade_vars, run_vars, insight_vars>>

Next == GenerateScenarios

Spec == Init /\ [][Next]_vars

(***************************************************************************)
(* calculate_performance as a state machine: one call on drawn inputs.     *)
(***************************************************************************)
InitPerf ==
    /\ perf_budget \in PerfBudgets
    /\ adjusted_metrics \in [CPC : PerfCPC, CTR : PerfCTR, CVR : PerfCVR]
    /\ perf_result = NoResult
    /\ ScenIdle /\ BenchIdle /\ GradeIdle /\ RunIdle /\ InsightsIdle

CalculatePerformance ==
    /\ perf_result = NoResult
    /\ perf_result' = calculate_performance(perf_budget, adjusted_metrics)
    /\ UNCHANGED <<perf_budget, adjusted_metrics>>
    /\ UNCHANGED <<scen_vars, bench_vars, grade_vars, run_vars, insight_vars>>

NextPerf == CalculatePerformance

SpecPerf == InitPerf /\ [][NextPerf]_vars

(***************************************************************************)
(* The benchmark functions as a state machine: one call of one of them on  *)
(* drawn arguments.                                                        *)
(***************************************************************************)
InitBench ==
    /\ arg_industry \in Industries
    /\ arg_month \in Months
    /\ arg_budget \in Budgets
    /\ arg_media_key \in MediaKeys
    /\ arg_base_metrics \in BaseMetrics
    /\ bench_call = "none"
    /\ bench_result = NoResult
    /\ ScenIdle /\ PerfIdle /\ GradeIdle /\ RunIdle /\ InsightsIdle

BenchReturns(fn, out) ==
    /\ bench_call = "none"
    /\ bench_call' = fn
    /\ bench_result' = out
    /\ UNCHANGED <<arg_industry, arg_month, arg_budget, arg_media_key, arg_base_metrics>>
    /\ UNCHANGED <<scen_vars, perf_vars, grade_vars, run_vars, insight_vars>>

CalculateSeasonality ==
    BenchReturns("calculate_seasonality", calculate_seasonality(arg_month, arg_industry))

CalculateBudgetCompetitionFactor ==
    BenchReturns("calculate_budget_competition_factor",
                 Return(calculate_budget_competition_factor(arg_budget)))

ApplyAdjustments ==
    BenchReturns("apply_adjustments",
                 Return(apply_adjustments(arg_industry, arg_month, arg_budget, arg_base_metrics)))

GetMediaAdjustedMetrics ==
    BenchReturns("get_media_adjusted_metrics",
                 get_media_adjusted_metrics(arg_industry, arg_media_key, arg_month, arg_budget))

GetMediaBenchmarks ==
    BenchReturns("get_media_benchmarks", get_media_benchmarks(arg_industry, arg_media_key))

ApplyBudgetAdjustment ==
    BenchReturns("apply_budget_adjustment",
                 Return(apply_budget_adjustment(arg_base_metrics["CPC"], arg_budget)))

NextBench ==
    \/ ApplyBudgetAdjustment
    \/ CalculateSeasonality
    \/ CalculateBudgetCompetitionFactor
    \/ ApplyAdjustments
    \/ GetMediaAdjustedMetrics
    \/ GetMediaBenchmarks

SpecBench == InitBench /\ [][NextBench]_vars

(***************************************************************************)
(* calculate_efficiency_grade as a state machine: one call on drawn        *)
(* inputs.                                                                 *)
(***************************************************************************)
InitGrade ==
    /\ avg_cpa \in GradeCPAs
    /\ avg_roas \in GradeROAS
    /\ total_conversions \in GradeConversions
    /\ grade = "none"
    /\ ScenIdle /\ PerfIdle /\ BenchIdle /\ RunIdle /\ InsightsIdle

CalculateEfficiencyGrade ==
    /\ grade = "none"
    /\ grade' = calculate_efficiency_grade(avg_cpa, avg_roas, total_conversions)
    /\ UNCHANGED <<avg_cpa, avg_roas, total_conversions>>
    /\ UNCHANGED <<scen_vars, perf_vars, bench_vars, run_vars, insight_vars>>

NextGrade == CalculateEfficiencyGrade

SpecGrade == InitGrade /\ [][NextGrade]_vars

(***************************************************************************)
(* The results page as a state machine: the scenarios of a channel list    *)
(* are generated and the recommendations are derived from them.            *)
(***************************************************************************)
InitInsights ==
    /\ selected_media \in InsightLists
    /\ total_budget = InsightBudget
    /\ scenario_adjustment = R(5)
    /\ scenarios = NoResult
    /\ prev_scenarios = NoResult
    /\ gen_state = "idle"
    /\ InsightsIdle
    /\ PerfIdle /\ BenchIdle /\ GradeIdle /\ RunIdle

GenerateRecommendations ==
    /\ gen_state = "returned"
    /\ recommendations = NoResult
    /\ recommendations' = Return(generate_recommendations(scenarios, total_budget))
    /\ UNCHANGED <<goal, insights>>
    /\ UNCHANGED <<scen_vars, perf_vars, bench_vars, grade_vars, run_vars>>

NextInsights == GenerateScenarios \/ GenerateRecommendations

SpecInsights == InitInsights /\ [][NextInsights]_vars

(***************************************************************************)
(* A run as a state machine: the user is on one entry path with the        *)
(* channels entered, and presses its run button (or confirms its input).   *)
(***************************************************************************)
InitRun ==
    /\ mode \in Modes
    /\ media_config \in RunConfigs(mode)
    /\ auto_normalize \in (IF mode = "auto" THEN BOOLEAN ELSE {TRUE})
    /\ run_state = "idle"
    /\ selected_media = <<>>
    /\ total_budget = RunBudget
    /\ scenario_adjustment = R(5)
    /\ scenarios = NoResult
    /\ prev_scenarios = NoResult
    /\ gen_state = "idle"
    /\ PerfIdle /\ BenchIdle /\ GradeIdle /\ InsightsIdle

RunEnds(state, config, medias, sc) ==
    /\ run_state' = state
    /\ media_config' = config
    /\ selected_media' = medias
    /\ scenarios' = sc
    /\ UNCHANGED <<mode, auto_normalize, total_budget, scenario_adjustment,
                   prev_scenarios, gen_state>>
    /\ UNCHANGED <<perf_vars, bench_vars, grade_vars, insight_vars>>

\* st.error and no computation
RunRejected == RunEnds("rejected", media_config, selected_media, scenarios)

\* generate_scenarios on the channels entered, the result stored
RunGenerates ==
    \E g \in {generate_scenarios(media_config, total_budget, scenario_adjustment)} :
        IF g.raised THEN RunEnds("failed", media_config, g.medias, scenarios)
        ELSE RunEnds("stored", media_config, g.medias, g.scenarios)

\* the loop without a try: the result stored, or the exception handled
\* ("failed") or not handled ("terminated") by the caller
RunLoops(config, medias, unhandled) ==
    \E out \in {scenario_performances(medias, total_budget)} :
        IF out.stored THEN RunEnds("stored", config, medias, out.scenarios)
        ELSE RunEnds(unhandled, config, medias, scenarios)

AutoBuilds(config) ==
    \E medias \in {auto_selected_media(config, 1, total_budget)} :
        IF medias = <<>> THEN RunEnds("failed", config, medias, scenarios)
        ELSE RunLoops(config, medias, "failed")

AutoRun ==
    /\ mode = "auto" /\ run_state = "idle"
    /\ ~button_disabled(media_config, total_ratio_of(media_config), auto_normalize)
    /\ \E g \in {auto_gate(media_config, total_ratio_of(media_config), auto_normalize)} :
          IF g.stop THEN RunRejected ELSE AutoBuilds(g.config)

ManualRun ==
    /\ mode = "manual" /\ run_state = "idle"
    /\ IF RLt(<<1, 100>>, RAbs(RSub(total_ratio_of(media_config), Hundred)))
       THEN RunRejected
       ELSE RunGenerates

UploadRun ==
    /\ mode = "upload" /\ run_state = "idle"
    /\ media_config # <<>>
    /\ RunGenerates

CliRun ==
    /\ mode = "cli" /\ run_state = "idle"
    /\ IF RLt(RAbs(RSub(total_ratio_of(media_config), Hundred)), <<1, 100>>)
       THEN RunGenerates
       ELSE \E modify_choice \in {"1", "2", "3"} :
               IF modify_choice = "3" THEN RunGenerates ELSE RunRejected

CliAiRun ==
    /\ mode = "cli_ai" /\ run_state = "idle"
    /\ \E goal_choice \in 1..3 :
          \E medias \in {ai_selected_media(media_config, goal_choice, total_budget)} :
              RunLoops(media_config, medias, "terminated")

NextRun == AutoRun \/ ManualRun \/ UploadRun \/ CliRun \/ CliAiRun

SpecRun == InitRun /\ [][NextRun]_vars

(***************************************************************************)
(* Both performance functions on inputs in range, the degenerate ones      *)
(* among them: one call of calculate_performance and calls of              *)
(* generate_scenarios, in any order.                                       *)
(***************************************************************************)
InitDegenerate ==
    /\ selected_media \in DegenerateLists
    /\ total_budget = R(10000000)
    /\ scenario_adjustment \in {R(10), R(100)}
    /\ scenarios = NoResult
    /\ prev_scenarios = NoResult
    /\ gen_state = "idle"
    /\ perf_budget = R(12345)
    /\ adjusted_metrics \in [CPC : {R(70)}, CTR : {<<3, 200>>}, CVR : DegenerateCVR]
    /\ perf_result = NoResult
    /\ BenchIdle /\ GradeIdle /\ RunIdle /\ InsightsIdle

NextDegenerate == GenerateScenarios \/ CalculatePerformance

SpecDegenerate == InitDegenerate /\ [][NextDegenerate]_vars

(***************************************************************************)
(* The aggregate insights as a state machine: the scenarios of a run are   *)
(* generated, and the insights are derived from them by either definition  *)
(* of generate_ai_insights.                                                *)
(***************************************************************************)
InitAiInsights ==
    /\ selected_media \in InsightLists
    /\ total_budget = InsightBudget
    /\ scenario_adjustment = R(5)
    /\ scenarios = NoResult
    /\ prev_scenarios = NoResult
    /\ gen_state = "idle"
    /\ arg_industry \in InsightIndustries
    /\ arg_month \in InsightMonths
    /\ arg_budget = Zero
    /\ arg_media_key = "tv_VA"
    /\ arg_base_metrics = IdleMetrics
    /\ bench_call = "none"
    /\ bench_result = NoResult
    /\ goal \in Goals
    /\ recommendations = NoResult
    /\ insights = NoResult
    /\ PerfIdle /\ GradeIdle /\ RunIdle

AiInsightsReturn(fn, out) ==
    /\ gen_state = "returned"
    /\ insights = NoResult
    /\ bench_call' = fn
    /\ insights' = Return(out)
    /\ UNCHANGED <<arg_industry, arg_month, arg_budget, arg_media_key, arg_base_metrics,
                   bench_result, recommendations, goal>>
    /\ UNCHANGED <<scen_vars, perf_vars, grade_vars, run_vars>>

GenerateAiInsights ==
    AiInsightsReturn("modules.generate_ai_insights",
                     generate_ai_insights([scenarios |-> scenarios, budget |-> total_budget],
                                          arg_industry, arg_month, goal))

AppGenerateAiInsights ==
    AiInsightsReturn("app.generate_ai_insights",
                     app_generate_ai_insights([scenarios |-> scenarios, budget |-> total_budget],
                                              arg_industry, arg_month, goal))

NextAiInsights == GenerateScenarios \/ GenerateAiInsights \/ AppGenerateAiInsights

SpecAiInsights == InitAiInsights /\ [][NextAiInsights]_vars

(***************************************************************************)
(* Normalization on the auto-generation page: the "normalize now" button   *)
(* and the run button, which normalizes before it computes.                *)
(***************************************************************************)
InitNormalize ==
    /\ mode = "auto"
    /\ media_config \in NormalizeConfigs
    /\ auto_normalize \in BOOLEAN
    /\ run_state = "idle"
    /\ selected_media = <<>>
    /\ total_budget = RunBudget
    /\ scenario_adjustment = R(5)
    /\ scenarios = NoResult
    /\ prev_scenarios = NoResult
    /\ gen_state = "idle"
    /\ PerfIdle /\ BenchIdle /\ GradeIdle /\ InsightsIdle

\* shown only while the total is out of tolerance
NormalizeNow ==
    /\ mode = "auto" /\ run_state = "idle"
    /\ ~RLt(RAbs(RSub(total_ratio_of(media_config), Hundred)), TOLERANCE)
    /\ RunEnds("normalized", normalized_config(media_config, total_ratio_of(media_config)),
               selected_media, scenarios)

NextNormalize == NormalizeNow \/ AutoRun

SpecNormalize == InitNormalize /\ [][NextNormalize]_vars

(***************************************************************************)
(* Properties of generate_scenarios (specification Spec).                  *)
(***************************************************************************)
ScenarioKeys == {"conservative", "base", "aggressive"}

Returned == gen_state = "returned"

Channels == 1..Len(selected_media)

\* the positions of list k whose entry carries the name of channel i
EntriesOf(k, i) ==
    {x \in 1..Len(scenarios[k]) : scenarios[k][x]["name"] = selected_media[i]["name"]}

IsPlaceholder(e) == "error" \in DOMAIN e /\ e["error"] = TRUE

IsComputed(e) == "error" \notin DOMAIN e

Present(m, f) == f \in DOMAIN m

\* C1: each of the three lists holds exactly one entry per input channel, and
\* its i-th entry belongs to the i-th input channel, whatever fails on the way.
C1_OneEntryPerChannel ==
    Returned =>
        \A k \in ScenarioKeys :
            /\ Len(scenarios[k]) = Len(selected_media)
            /\ \A i \in Channels : scenarios[k][i]["name"] = selected_media[i]["name"]

\* C2: generate_scenarios never raises: every exception of a channel is caught
\* in the loop and the call returns a map with the keys conservative, base and
\* aggressive.
C2_NeverRaises ==
    /\ gen_state # "raised"
    /\ Returned => DOMAIN scenarios = ScenarioKeys

C2_Witness ==
    /\ Returned
    /\ \E x, y \in 1..Len(scenarios["conservative"]) :
          /\ IsPlaceholder(scenarios["conservative"][x])
          /\ scenarios["conservative"][x]["error_message"][1] = "KeyError"
          /\ IsPlaceholder(scenarios["conservative"][y])
          /\ scenarios["conservative"][y]["error_message"][1] = "ValueError"

\* the failures C3 names: cpc <= 0, ctr <= 0, budget_ratio < 0, total_budget <= 0
FailsCheck(m) ==
    \/ RLe(total_budget, Zero)
    \/ Present(m, "cpc") /\ RLe(m["cpc"], Zero)
    \/ Present(m, "ctr") /\ RLe(m["ctr"], Zero)
    \/ Present(m, "budget_ratio") /\ RLt(m["budget_ratio"], Zero)

ZeroFields ==
    {"media_budget", "estimated_impressions", "estimated_clicks", "estimated_conversions",
     "estimated_conversions_adjusted", "cpa_adjusted", "total_revenue_adjusted",
     "roas_adjusted"}

ZeroedPlaceholder(e) ==
    /\ IsPlaceholder(e)
    /\ \A f \in ZeroFields : f \in DOMAIN e /\ e[f] = Zero

\* a channel with every field present and in range
WellFormed(m) ==
    /\ \A f \in DOMAIN BaseChannel : Present(m, f)
    /\ RPos(m["cpc"]) /\ RPos(m["ctr"])
    /\ RLe(Zero, m["budget_ratio"]) /\ RLe(Zero, m["cvr"])

ComputedNormally(e, m) ==
    /\ IsComputed(e)
    /\ RMul(e["media_budget"], Hundred) = RMul(total_budget, m["budget_ratio"])
    /\ RMul(e["estimated_clicks"], m["cpc"]) = e["media_budget"]

\* C3: a channel failing one of the checks (cpc <= 0, ctr <= 0, budget_ratio < 0,
\* total_budget <= 0) has, in each of the three scenarios, one entry, an
\* error-flagged placeholder whose budget, funnel and adjusted figures are 0;
\* the well-formed channels of the same call are computed all the same.
C3_FailedChannelIsPlaceholder ==
    Returned =>
        \A i \in Channels : \A k \in ScenarioKeys :
            /\ FailsCheck(selected_media[i]) =>
                  /\ Cardinality(EntriesOf(k, i)) = 1
                  /\ \A x \in EntriesOf(k, i) : ZeroedPlaceholder(scenarios[k][x])
            /\ (WellFormed(selected_media[i]) /\ RPos(total_budget)) =>
                  /\ Cardinality(EntriesOf(k, i)) = 1
                  /\ \A x \in EntriesOf(k, i) :
                        ComputedNormally(scenarios[k][x], selected_media[i])

C3_Witness ==
    /\ Returned
    /\ RPos(total_budget)
    /\ \E i, j \in Channels :
          /\ Present(selected_media[i], "cpc") /\ selected_media[i]["cpc"] = Zero
          /\ WellFormed(selected_media[j])
          /\ \A k \in ScenarioKeys :
                /\ \E x \in EntriesOf(k, i) : ZeroedPlaceholder(scenarios[k][x])
                /\ \E x \in EntriesOf(k, j) : IsComputed(scenarios[k][x])

\* the channels all three of whose entries were computed
Succeeded(i) ==
    \A k \in ScenarioKeys :
        /\ EntriesOf(k, i) # {}
        /\ \A x \in EntriesOf(k, i) : IsComputed(scenarios[k][x])

PlusPct(p) == RAdd(One, RDiv(p, Hundred))

MinusPct(p) == RSub(One, RDiv(p, Hundred))

ConvAdj(k, x) == scenarios[k][x]["estimated_conversions_adjusted"]

\* C4: for a channel that computes successfully, base.conversions_adjusted is
\* conversions x (1 + adjustment/100), the conservative value is the base value
\* x (1 - s/100) and the aggressive value is the base value x (1 + s/100).
C4_ScenarioIdentity ==
    Returned =>
        \A i \in Channels : Succeeded(i) =>
            \A b \in EntriesOf("base", i) :
                /\ ConvAdj("base", b) =
                      RMul(scenarios["base"][b]["estimated_conversions"],
                           PlusPct(Get(selected_media[i], "adjustment", Zero)))
                /\ \A c \in EntriesOf("conservative", i) :
                      ConvAdj("conservative", c) =
                          RMul(ConvAdj("base", b), MinusPct(scenario_adjustment))
                /\ \A a \in EntriesOf("aggressive", i) :
                      ConvAdj("aggressive", a) =
                          RMul(ConvAdj("base", b), PlusPct(scenario_adjustment))

C4_Witness ==
    /\ Returned
    /\ RPos(scenario_adjustment)
    /\ \E i \in Channels :
          /\ Succeeded(i)
          /\ Present(selected_media[i], "adjustment")
          /\ RPos(selected_media[i]["adjustment"])
          /\ \E b \in EntriesOf("base", i), c \in EntriesOf("conservative", i) :
                /\ RPos(ConvAdj("conservative", c))
                /\ RLt(ConvAdj("conservative", c), ConvAdj("base", b))
                /\ RLt(scenarios["base"][b]["estimated_conversions"], ConvAdj("base", b))

PerfDone == "ok" \in DOMAIN perf_result

PerfValid ==
    /\ RPos(adjusted_metrics["CPC"])
    /\ RPos(adjusted_metrics["CTR"])
    /\ RLe(Zero, adjusted_metrics["CVR"])
    /\ RPos(perf_budget)

\* C6: calculate_performance raises, and returns nothing, when cpc <= 0 or
\* ctr <= 0 or cvr < 0 or budget <= 0, and returns a result for every other input.
C6_PerformancePreconditions ==
    PerfDone =>
        /\ perf_result.ok <=> PerfValid
        /\ ~perf_result.ok => "val" \notin DOMAIN perf_result

C6_Witness ==
    /\ PerfDone
    /\ ~perf_result.ok
    /\ RLt(adjusted_metrics["CVR"], Zero)
    /\ RPos(adjusted_metrics["CPC"]) /\ RPos(adjusted_metrics["CTR"]) /\ RPos(perf_budget)

\* |x - y| <= tol
Within(x, y, tol) == RLe(RAbs(RSub(x, y)), tol)

ExactClicks == RDiv(perf_budget, adjusted_metrics["CPC"])

\* the error that rounding cpa to a unit and conversions to 0.01 leaves in
\* their product
ProductTolerance(cpa, conversions) ==
    RAdd(RAdd(RMul(cpa, <<1, 200>>), RMul(conversions, <<1, 2>>)), <<1, 400>>)

\* C7: on valid inputs the result is clicks = budget/cpc, impressions =
\* clicks/ctr, conversions = clicks x cvr, each rounded at the output (to a unit,
\* a unit, 0.01), and cpa x conversions is budget up to that rounding when
\* conversions > 0.
C7_FunnelFormulas ==
    (PerfDone /\ PerfValid) =>
        /\ perf_result.ok
        /\ Within(perf_result.val["clicks"], ExactClicks, <<1, 2>>)
        /\ Within(perf_result.val["impressions"],
                  RDiv(ExactClicks, adjusted_metrics["CTR"]), <<1, 2>>)
        /\ Within(perf_result.val["conversions"],
                  RMul(ExactClicks, adjusted_metrics["CVR"]), <<1, 200>>)
        /\ RPos(adjusted_metrics["CVR"]) =>
              Within(RMul(perf_result.val["cpa"], perf_result.val["conversions"]),
                     perf_budget,
                     ProductTolerance(perf_result.val["cpa"], perf_result.val["conversions"]))

C7_Witness ==
    /\ PerfDone /\ PerfValid
    /\ perf_result.ok
    /\ RPos(perf_result.val["conversions"])
    /\ perf_result.val["clicks"] # ExactClicks
    /\ RMul(perf_result.val["cpa"], perf_result.val["conversions"]) # perf_budget

(***************************************************************************)
(* Properties of the channel-level computation (specification Spec).       *)
(***************************************************************************)
\* C8: a channel whose cvr is negative is rejected by the channel-level
\* computation, so each of its entries is an error-flagged placeholder.
C8_NegativeCvrRejected ==
    Returned =>
        \A i \in Channels :
            (Present(selected_media[i], "cvr") /\ RLt(selected_media[i]["cvr"], Zero)) =>
                \A k \in ScenarioKeys : \A x \in EntriesOf(k, i) :
                    IsPlaceholder(scenarios[k][x])

ZeroRatio(m) == Present(m, "budget_ratio") /\ m["budget_ratio"] = Zero

\* C9 as claimed: a channel with budget_ratio = 0 under total_budget > 0 fails
\* and is reported as an error-flagged placeholder.
C9_ZeroRatioRejected ==
    Returned =>
        \A i \in Channels :
            (ZeroRatio(selected_media[i]) /\ RPos(total_budget)) =>
                \A k \in ScenarioKeys : \A x \in EntriesOf(k, i) :
                    IsPlaceholder(scenarios[k][x])

BudgetFailure(e) ==
    /\ IsPlaceholder(e)
    /\ e["error_message"] \in {<<"ValueError", "total_budget">>,
                               <<"ValueError", "budget_ratio">>}

\* C9 as amended: a well-formed channel with budget_ratio = 0 under
\* total_budget > 0 is accepted: in each scenario its one entry has no error
\* flag and media budget, funnel and adjusted figures 0; a placeholder is
\* reported for a budget only when total_budget <= 0 or budget_ratio < 0.
C9_ZeroRatioAccepted ==
    Returned =>
        \A i \in Channels : \A k \in ScenarioKeys :
            /\ (ZeroRatio(selected_media[i]) /\ WellFormed(selected_media[i])
                    /\ RPos(total_budget)) =>
                  /\ Cardinality(EntriesOf(k, i)) = 1
                  /\ \A x \in EntriesOf(k, i) :
                        /\ IsComputed(scenarios[k][x])
                        /\ \A f \in ZeroFields : scenarios[k][x][f] = Zero
            /\ \A x \in EntriesOf(k, i) :
                  BudgetFailure(scenarios[k][x]) =>
                      \/ RLe(total_budget, Zero)
                      \/ RLt(Get(selected_media[i], "budget_ratio", Zero), Zero)

C9_Witness ==
    /\ Returned
    /\ RPos(total_budget)
    /\ \E i, j \in Channels :
          /\ ZeroRatio(selected_media[i]) /\ WellFormed(selected_media[i])
          /\ \A k \in ScenarioKeys : \E x \in EntriesOf(k, i) :
                IsComputed(scenarios[k][x]) /\ scenarios[k][x]["media_budget"] = Zero
          /\ \E x \in EntriesOf("base", j) : BudgetFailure(scenarios["base"][x])

ExampleBudget == R(10000000)

\* C10: for every channel the computation accepts, media_budget = total_budget
\* x budget_ratio/100, conversions_adjusted = conversions x (1 + adjustment/100),
\* revenue = conversions x revenue_per_conversion and roas = revenue /
\* media_budget x 100; the channel cpc 1000, ctr 2, cvr 2, ratio 100, revenue
\* per conversion 50,000, adjustment 0 under a total of 10,000,000 gives clicks
\* 10,000, impressions 500,000, conversions 200, cpa 50,000, revenue 10,000,000
\* and roas 100.
C10_ChannelFormulas ==
    Returned =>
        \A i \in Channels : \A x \in EntriesOf("base", i) :
            IsComputed(scenarios["base"][x]) =>
                /\ RMul(scenarios["base"][x]["media_budget"], Hundred) =
                       RMul(total_budget, selected_media[i]["budget_ratio"])
                /\ scenarios["base"][x]["estimated_conversions_adjusted"] =
                       RMul(scenarios["base"][x]["estimated_conversions"],
                            PlusPct(Get(selected_media[i], "adjustment", Zero)))
                /\ scenarios["base"][x]["total_revenue"] =
                       RMul(scenarios["base"][x]["estimated_conversions"],
                            Get(selected_media[i], "revenue_per_cv", Zero))
                /\ RMul(scenarios["base"][x]["roas"], scenarios["base"][x]["media_budget"]) =
                       RMul(scenarios["base"][x]["total_revenue"], Hundred)
                /\ (selected_media[i] = Named(BaseChannel, i)
                        /\ total_budget = ExampleBudget) =>
                      /\ scenarios["base"][x]["estimated_clicks"] = R(10000)
                      /\ scenarios["base"][x]["estimated_impressions"] = R(500000)
                      /\ scenarios["base"][x]["estimated_conversions"] = R(200)
                      /\ scenarios["base"][x]["cpa"] = R(50000)
                      /\ scenarios["base"][x]["total_revenue"] = R(10000000)
                      /\ scenarios["base"][x]["roas"] = R(100)

C10_Witness ==
    /\ Returned
    /\ total_budget = ExampleBudget
    /\ \E i \in Channels :
          /\ selected_media[i] = Named(BaseChannel, i)
          /\ \E x \in EntriesOf("base", i) :
                /\ IsComputed(scenarios["base"][x])
                /\ scenarios["base"][x]["estimated_clicks"] = R(10000)
                /\ scenarios["base"][x]["roas"] = R(100)
          /\ \E j \in Channels :
                /\ RPos(Get(selected_media[j], "adjustment", Zero))
                /\ \E y \in EntriesOf("base", j) : IsComputed(scenarios["base"][y])

(***************************************************************************)
(* Budget conservation (specification Spec).                               *)
(***************************************************************************)
RECURSIVE SumField(_, _, _)
SumField(entries, f, n) ==
    IF n = 0 THEN Zero ELSE RAdd(SumField(entries, f, n - 1), entries[n][f])

Accepted(i) == \E x \in EntriesOf("base", i) : IsComputed(scenarios["base"][x])

AllAccepted == Channels # {} /\ \A i \in Channels : Accepted(i)

RatioSum == SumField(selected_media, "budget_ratio", Len(selected_media))

\* C11: when every channel of the call is accepted and their budget_ratio
\* values sum to 100, their media_budget values sum to total_budget.
C11_BudgetConservation ==
    (Returned /\ AllAccepted /\ RatioSum = Hundred) =>
        SumField(scenarios["base"], "media_budget", Len(scenarios["base"])) = total_budget

C11_Witness ==
    /\ Returned /\ AllAccepted /\ RatioSum = Hundred
    /\ Len(selected_media) >= 2
    /\ \A i \in Channels : RPos(selected_media[i]["budget_ratio"])
                           /\ RLt(selected_media[i]["budget_ratio"], Hundred)

(***************************************************************************)
(* The benchmark functions (specification SpecBench).                      *)
(***************************************************************************)
BenchCalled(fn) == bench_call = fn

InTier(b, lo, hi) == RLe(lo, b) /\ RLt(b, hi)

\* C14: the budget competition factor is 0.90 below 10,000,000, 1.00 from
\* 10,000,000 up to but not including 50,000,000, 1.10 from 50,000,000 up to
\* but not including 100,000,000, and 1.20 from 100,000,000 on.
C14_CompetitionTiers ==
    BenchCalled("calculate_budget_competition_factor") =>
        /\ RLt(arg_budget, R(10000000)) => bench_result = Return(<<9, 10>>)
        /\ InTier(arg_budget, R(10000000), R(50000000)) => bench_result = Return(One)
        /\ InTier(arg_budget, R(50000000), R(100000000)) => bench_result = Return(<<11, 10>>)
        /\ RLe(R(100000000), arg_budget) => bench_result = Return(<<6, 5>>)

C14_Witness ==
    /\ BenchCalled("calculate_budget_competition_factor")
    /\ arg_budget = R(50000000)
    /\ bench_result = Return(<<11, 10>>)

\* C15: for fixed base metrics the adjusted CPC is the same for every month
\* and industry, and the adjusted CTR and CVR are the same for every budget.
C15_PriceEngagementSeparate ==
    BenchCalled("apply_adjustments") =>
        /\ \A i \in Industries, m \in Months :
              apply_adjustments(i, m, arg_budget, arg_base_metrics)["CPC"]
                  = bench_result.val["CPC"]
        /\ \A b \in Budgets :
              /\ apply_adjustments(arg_industry, arg_month, b, arg_base_metrics)["CTR"]
                    = bench_result.val["CTR"]
              /\ apply_adjustments(arg_industry, arg_month, b, arg_base_metrics)["CVR"]
                    = bench_result.val["CVR"]

C15_Witness ==
    /\ BenchCalled("apply_adjustments")
    /\ arg_industry = "fashion" /\ arg_month = 11 /\ arg_budget = R(100000000)
    /\ bench_result.val["CTR"] # arg_base_metrics["CTR"]
    /\ bench_result.val["CPC"] # arg_base_metrics["CPC"]

\* C16: a lookup miss never raises: the seasonality of an unknown month and
\* industry is 1.0, the adjusted metrics of an unknown industry are None, those
\* of a channel key without multiplier are the industry's base metrics
\* adjusted, and the benchmark of an unknown industry or channel is None.
C16_LookupMissesNeverRaise ==
    /\ bench_call \in {"calculate_seasonality", "get_media_adjusted_metrics",
                       "get_media_benchmarks"} => bench_result.ok
    /\ (/\ BenchCalled("calculate_seasonality")
        /\ arg_month \notin DOMAIN SEASONALITY_COMMON
        /\ arg_industry \notin DOMAIN INDUSTRY_SEASON_WEIGHT)
           => bench_result = Return(One)
    /\ (/\ BenchCalled("get_media_adjusted_metrics")
        /\ arg_industry \notin DOMAIN INDUSTRY_BASE_METRICS)
           => bench_result = Return(None)
    /\ (/\ BenchCalled("get_media_adjusted_metrics")
        /\ arg_industry \in DOMAIN INDUSTRY_BASE_METRICS
        /\ arg_media_key \notin DOMAIN MEDIA_MULTIPLIERS)
           => bench_result = Return(apply_adjustments(arg_industry, arg_month, arg_budget,
                                                      INDUSTRY_BASE_METRICS[arg_industry]))
    /\ (/\ BenchCalled("get_media_benchmarks")
        /\ \/ arg_industry \notin DOMAIN BENCHMARKS
           \/ arg_media_key \notin DOMAIN BENCHMARKS[arg_industry])
           => bench_result = Return(None)

C16_Witness ==
    /\ BenchCalled("calculate_seasonality")
    /\ arg_month = 13 /\ arg_industry = "unknown"
    /\ bench_result = Return(One)

(***************************************************************************)
(* The efficiency grade (specification SpecGrade).                         *)
(***************************************************************************)
Graded == grade # "none"

\* the points of the first threshold of a table that v reaches
RECURSIVE PointsAtLeast(_, _, _)
PointsAtLeast(table, v, k) ==
    IF k > Len(table) THEN 0
    ELSE IF RLe(R(table[k][1]), v) THEN table[k][2]
    ELSE PointsAtLeast(table, v, k + 1)

RECURSIVE PointsAtMost(_, _, _)
PointsAtMost(table, v, k) ==
    IF k > Len(table) THEN 0
    ELSE IF RLe(v, R(table[k][1])) THEN table[k][2]
    ELSE PointsAtMost(table, v, k + 1)

ReferenceScore(cpa, roas, conversions) ==
    PointsAtLeast(<<<<300, 40>>, <<200, 30>>, <<150, 20>>, <<100, 10>>>>, roas, 1)
    + PointsAtLeast(<<<<500, 30>>, <<300, 25>>, <<150, 20>>, <<50, 10>>>>, conversions, 1)
    + (IF RPos(cpa)
       THEN PointsAtMost(<<<<30000, 30>>, <<40000, 25>>, <<50000, 20>>, <<70000, 10>>>>, cpa, 1)
       ELSE 0)

ReferenceGrade(score) ==
    CASE score >= 80 -> "S"
      [] score >= 60 /\ score < 80 -> "A"
      [] score >= 40 /\ score < 60 -> "B"
      [] score < 40 -> "C"

\* C17: the grade returned is that of the reference scoring (ROAS up to 40,
\* volume up to 30, CPA up to 30 and only when avg_cpa > 0; S from 80, A from
\* 60, B from 40, else C); roas 320, conversions 600, cpa 25,000 scores 100
\* and grades S.
C17_ReferenceScoring ==
    Graded =>
        /\ efficiency_score(avg_cpa, avg_roas, total_conversions)
              = ReferenceScore(avg_cpa, avg_roas, total_conversions)
        /\ grade = ReferenceGrade(ReferenceScore(avg_cpa, avg_roas, total_conversions))
        /\ (avg_roas = R(320) /\ total_conversions = R(600) /\ avg_cpa = R(25000))
              => /\ efficiency_score(avg_cpa, avg_roas, total_conversions) = 100
                 /\ grade = "S"

C17_Witness ==
    /\ Graded
    /\ avg_roas = R(320) /\ total_conversions = R(600) /\ avg_cpa = R(25000)
    /\ grade = "S"

Rank(g) == CASE g = "S" -> 3 [] g = "A" -> 2 [] g = "B" -> 1 [] g = "C" -> 0

MonotoneInRoas ==
    \A roas \in GradeROAS :
        RLe(avg_roas, roas)
            => Rank(calculate_efficiency_grade(avg_cpa, roas, total_conversions)) >= Rank(grade)

MonotoneInConversions ==
    \A conversions \in GradeConversions :
        RLe(total_conversions, conversions)
            => Rank(calculate_efficiency_grade(avg_cpa, avg_roas, conversions)) >= Rank(grade)

\* C18 as stated: raising avg_roas, raising total_conversions or lowering
\* avg_cpa (to any value the caller can pass, 0 included) never lowers the
\* grade.
C18_GradeMonotone ==
    Graded =>
        /\ MonotoneInRoas
        /\ MonotoneInConversions
        /\ \A cpa \in GradeCPAs :
              (RLe(Zero, cpa) /\ RLe(cpa, avg_cpa))
                  => Rank(calculate_efficiency_grade(cpa, avg_roas, total_conversions))
                         >= Rank(grade)

\* C18 amended: raising avg_roas or total_conversions never lowers the grade;
\* lowering avg_cpa never lowers it as long as avg_cpa stays above 0; an
\* avg_cpa of 0 or less earns no CPA points, so its grade is never above that
\* of a positive avg_cpa.
C18_GradeMonotoneWhilePositive ==
    Graded =>
        /\ MonotoneInRoas
        /\ MonotoneInConversions
        /\ \A cpa \in GradeCPAs :
              (RPos(cpa) /\ RLe(cpa, avg_cpa))
                  => Rank(calculate_efficiency_grade(cpa, avg_roas, total_conversions))
                         >= Rank(grade)
        /\ \A cpa \in GradeCPAs :
              (RLe(cpa, Zero) /\ RPos(avg_cpa))
                  => Rank(calculate_efficiency_grade(cpa, avg_roas, total_conversions))
                         <= Rank(grade)

C18_Witness ==
    /\ Graded
    /\ avg_cpa = R(30000)
    /\ Rank(calculate_efficiency_grade(R(30001), avg_roas, total_conversions)) < Rank(grade)
    /\ Rank(calculate_efficiency_grade(Zero, avg_roas, total_conversions)) < Rank(grade)

(***************************************************************************)
(* Re-derived fields of the conservative and aggressive entries            *)
(* (specification Spec).                                                   *)
(***************************************************************************)
DerivedScenarios == {"conservative", "aggressive"}

CpaFrom(e) ==
    IF RPos(e["estimated_conversions_adjusted"])
    THEN RDiv(e["media_budget"], e["estimated_conversions_adjusted"])
    ELSE Zero

RevenueFrom(e) == RMul(e["estimated_conversions_adjusted"], e["revenue_per_cv"])

RoasFrom(e) ==
    IF RPos(e["media_budget"])
    THEN RMul(RDiv(e["total_revenue_adjusted"], e["media_budget"]), Hundred)
    ELSE Zero

\* C20: every computed entry of the conservative and the aggressive scenario
\* has cpa_adjusted = media_budget / conversions_adjusted (0 when that is not
\* positive), revenue_adjusted = conversions_adjusted x revenue per conversion
\* and roas_adjusted = revenue_adjusted / media_budget x 100 (0 when the media
\* budget is not positive), all from the entry's own conversions_adjusted.
C20_DerivedFieldsRederived ==
    Returned =>
        \A k \in DerivedScenarios : \A x \in 1..Len(scenarios[k]) :
            IsComputed(scenarios[k][x]) =>
                /\ scenarios[k][x]["cpa_adjusted"] = CpaFrom(scenarios[k][x])
                /\ scenarios[k][x]["total_revenue_adjusted"] = RevenueFrom(scenarios[k][x])
                /\ scenarios[k][x]["roas_adjusted"] = RoasFrom(scenarios[k][x])

C20_Witness ==
    /\ Returned
    /\ RPos(scenario_adjustment)
    /\ \E i \in Channels :
          \E b \in EntriesOf("base", i), c \in EntriesOf("conservative", i),
             a \in EntriesOf("aggressive", i) :
                /\ IsComputed(scenarios["conservative"][c])
                /\ RPos(ConvAdj("conservative", c))
                /\ scenarios["conservative"][c]["cpa_adjusted"]
                      # scenarios["base"][b]["cpa_adjusted"]
                /\ scenarios["aggressive"][a]["roas_adjusted"]
                      # scenarios["base"][b]["roas_adjusted"]

(***************************************************************************)
(* The concentration warning (specification SpecInsights).                 *)
(***************************************************************************)
Recommended == "ok" \in DOMAIN recommendations

DependencyWarnings == SelectSeq(recommendations.val, LAMBDA r : r["icon"] = "dependency")

Concentrated == SelectSeq(scenarios["base"], LAMBDA m : RLt(R(50), m["budget_ratio"]))

RunStarted == run_state \in {"stored", "failed", "terminated"} /\ selected_media # <<>>

\* C12: a computation is only ever started on channels whose budget_ratio
\* values sum to 100 within 0.1, on every entry path.
C12_StartedOnlyOnFullRatio ==
    RunStarted =>
        RLe(RAbs(RSub(total_ratio_of(selected_media), Hundred)), TOLERANCE)

FailsAlone(m) == ~calculate_media_performance(m, total_budget).ok

\* C13: when the computation of a channel fails, the run still stores a
\* result in which that channel is omitted or a placeholder and every other
\* channel has its computed entries, on every entry path.
C13_FailureNeverEndsRun ==
    (RunStarted /\ \E i \in Channels : FailsAlone(selected_media[i])) =>
        /\ run_state = "stored"
        /\ \A i \in Channels :
              IF FailsAlone(selected_media[i])
              THEN \A x \in EntriesOf("base", i) : IsPlaceholder(scenarios["base"][x])
              ELSE \E x \in EntriesOf("base", i) : IsComputed(scenarios["base"][x])

(***************************************************************************)
(* The shape of the placeholder (specification Spec).                      *)
(***************************************************************************)
\* the fields calculate_media_performance adds to a channel
PerformanceFields == DOMAIN performance(BaseChannel, R(10000000))

\* C21: a placeholder carries every field a computed entry of its channel
\* carries: the channel's own fields and the fields of the performance, cpa,
\* total_revenue and roas among them.
C21_PlaceholderShape ==
    Returned =>
        \A i \in Channels : \A k \in ScenarioKeys : \A x \in EntriesOf(k, i) :
            IsPlaceholder(scenarios[k][x]) =>
                (PerformanceFields \cup DOMAIN selected_media[i]) \subseteq DOMAIN scenarios[k][x]

(***************************************************************************)
(* Zero conversions and zero impressions (specification SpecDegenerate).   *)
(***************************************************************************)
ZeroGives(e, den, ratio) == e[den] = Zero => e[ratio] = Zero

\* every ratio of entry e whose denominator is 0 is 0
RatiosGuarded(e) ==
    /\ ZeroGives(e, "estimated_conversions", "cpa")
    /\ ZeroGives(e, "estimated_conversions_adjusted", "cpa_adjusted")
    /\ ZeroGives(e, "estimated_impressions", "cpm")
    /\ ZeroGives(e, "media_budget", "roas")
    /\ ZeroGives(e, "media_budget", "roas_adjusted")

ComputedDegenerate(e, m) ==
    /\ IsComputed(e)
    /\ RatiosGuarded(e)
    /\ m["cvr"] = Zero => e["estimated_conversions"] = Zero
    /\ m["adjustment"] = R(-100) => e["estimated_conversions_adjusted"] = Zero

\* C22: with inputs in range, calculate_performance with cvr = 0 returns
\* conversions 0 and cpa 0, and every channel is computed in all three
\* scenarios, with conversions 0 when cvr = 0, adjusted conversions 0 when
\* adjustment = -100, and cpa, cpa_adjusted, cpm, roas equal to 0 whenever
\* their denominator is 0.
C22_ZeroIsNotAnError ==
    /\ (PerfDone /\ PerfValid) =>
          /\ perf_result.ok
          /\ adjusted_metrics["CVR"] = Zero =>
                perf_result.val["conversions"] = Zero /\ perf_result.val["cpa"] = Zero
    /\ Returned =>
          \A i \in Channels : WellFormed(selected_media[i]) =>
              \A k \in ScenarioKeys :
                  /\ EntriesOf(k, i) # {}
                  /\ \A x \in EntriesOf(k, i) :
                        ComputedDegenerate(scenarios[k][x], selected_media[i])

C22_Witness ==
    /\ PerfDone /\ perf_result.ok /\ adjusted_metrics["CVR"] = Zero
    /\ perf_result.val["cpa"] = Zero
    /\ Returned
    /\ \E i, j \in Channels :
          /\ selected_media[i]["cvr"] = Zero
          /\ selected_media[j]["adjustment"] = R(-100)
          /\ \E x \in EntriesOf("base", i), y \in EntriesOf("aggressive", j) :
                /\ scenarios["base"][x]["cpa"] = Zero
                /\ scenarios["base"][x]["estimated_conversions"] = Zero
                /\ RPos(scenarios["base"][x]["estimated_clicks"])
                /\ scenarios["aggressive"][y]["cpa_adjusted"] = Zero
                /\ RPos(scenarios["aggressive"][y]["estimated_conversions"])

(***************************************************************************)
(* The efficiency shift (specification SpecInsights).                      *)
(***************************************************************************)
ShiftAdvisories == SelectSeq(recommendations.val, LAMBDA r : r["icon"] = "shift")

BaseEntries == 1..Len(scenarios["base"])

BaseCpa(x) == Get(scenarios["base"][x], "cpa", Zero)

\* the entries with a CPA, which are the ones ranked
Ranked == {x \in BaseEntries : RPos(BaseCpa(x))}

IsBest(x) == x \in Ranked /\ \A y \in Ranked : RLe(BaseCpa(x), BaseCpa(y))

IsWorst(x) == x \in Ranked /\ \A y \in Ranked : RLe(BaseCpa(y), BaseCpa(x))

ShiftedRatio(w) == RMul(scenarios["base"][w]["budget_ratio"], <<1, 10>>)

\* (total_budget x shifted_ratio / 100) / best.cpc x best.cvr, cvr a percentage
ConversionGain(b, w) ==
    RMul(RDiv(RMul(total_budget, RDiv(ShiftedRatio(w), Hundred)), scenarios["base"][b]["cpc"]),
         RDiv(scenarios["base"][b]["cvr"], Hundred))

ShiftBetween(r, b, w) ==
    /\ IsBest(b) /\ IsWorst(w)
    /\ RLt(RMul(BaseCpa(b), <<3, 2>>), BaseCpa(w))
    /\ r["best"] = scenarios["base"][b]["name"]
    /\ r["worst"] = scenarios["base"][w]["name"]
    /\ r["worst_ratio"] = scenarios["base"][w]["budget_ratio"]
    /\ r["best_ratio"] = scenarios["base"][b]["budget_ratio"]
    /\ r["worst_ratio_after"] = RSub(r["worst_ratio"], ShiftedRatio(w))
    /\ r["best_ratio_after"] = RAdd(r["best_ratio"], ShiftedRatio(w))
    /\ r["additional_conversions"] = ConversionGain(b, w)

\* C23: a call proposes at most one shift, and only between the entry of the
\* lowest CPA and the entry of the highest CPA of the base scenario when the
\* highest exceeds 1.5 x the lowest; the shift is 10% of the worst entry's
\* budget_ratio and the gain is (total_budget x shifted_ratio/100) / best.cpc
\* x best.cvr.
C23_EfficiencyShift ==
    Recommended =>
        /\ Len(ShiftAdvisories) <= 1
        /\ \A n \in 1..Len(ShiftAdvisories) :
              \E b, w \in BaseEntries : ShiftBetween(ShiftAdvisories[n], b, w)

C23_Witness ==
    /\ Recommended
    /\ Len(ShiftAdvisories) = 1
    /\ ShiftAdvisories[1]["worst_ratio"] = R(60)
    /\ ShiftAdvisories[1]["worst_ratio_after"] = R(54)
    /\ ShiftAdvisories[1]["best_ratio_after"] = R(46)
    /\ ShiftAdvisories[1]["additional_conversions"] = <<12, 5>>

(***************************************************************************)
(* The ROAS advisory (specification SpecInsights).                         *)
(***************************************************************************)
RoasAdvisories == SelectSeq(recommendations.val, LAMBDA r : r["icon"] = "roas")

BaseRoas(m) == Get(m, "roas", Zero)

LowRoas == SelectSeq(scenarios["base"], LAMBDA m : RPos(BaseRoas(m)) /\ RLt(BaseRoas(m), R(150)))

\* the ROAS of entry m, were its revenue per conversion v
RoasAt(m, v) == RMul(RDiv(RMul(m["estimated_conversions"], v), m["media_budget"]), Hundred)

\* C24: the ROAS advisories are, in order, one for each entry of the base
\* scenario with 0 < roas < 150 and none for any other entry; the target each
\* reports is 1.5 x the entry's CPA, the revenue per conversion at which the
\* entry's ROAS is 150.
C24_RoasAdvisory ==
    Recommended =>
        /\ Len(RoasAdvisories) = Len(LowRoas)
        /\ \A x \in 1..Len(RoasAdvisories) :
              /\ RoasAdvisories[x]["name"] = LowRoas[x]["name"]
              /\ RoasAdvisories[x]["roas"] = LowRoas[x]["roas"]
              /\ RoasAdvisories[x]["needed_revenue"] = RMul(LowRoas[x]["cpa"], <<3, 2>>)
              /\ RoasAt(LowRoas[x], RoasAdvisories[x]["needed_revenue"]) = R(150)

C24_Witness ==
    /\ Recommended
    /\ Len(scenarios["base"]) = 2
    /\ BaseRoas(scenarios["base"][1]) = R(150)
    /\ BaseRoas(scenarios["base"][2]) = R(100)
    /\ Len(RoasAdvisories) = 1
    /\ RoasAdvisories[1]["name"] = 2
    /\ RoasAdvisories[1]["needed_revenue"] = R(75000)

\* C30: each ROAS advisory reports, as the current revenue per conversion, the
\* revenue_per_cv of its entry, and as the gap the target minus that value.
C30_CurrentRevenueIsConfigured ==
    Recommended =>
        \A x \in 1..Len(RoasAdvisories) :
            x <= Len(LowRoas) =>
                /\ RoasAdvisories[x]["current_revenue"] = LowRoas[x]["revenue_per_cv"]
                /\ RoasAdvisories[x]["revenue_gap"] =
                      RSub(RoasAdvisories[x]["needed_revenue"], LowRoas[x]["revenue_per_cv"])

(***************************************************************************)
(* The benchmark CPA of the insights (specification SpecAiInsights).       *)
(***************************************************************************)
Advised == "ok" \in DOMAIN insights

CpaInsights == SelectSeq(insights.val, LAMBDA r : r["title"] \in {"cpa_low", "cpa_high"})

\* the channels of the industry that have a benchmark CPA entry
CpaEntries(ind) ==
    IF ind \in DOMAIN BENCHMARKS
    THEN {k \in DOMAIN BENCHMARKS[ind] : "CPA" \in DOMAIN BENCHMARKS[ind][k]}
    ELSE {}

\* x is the arithmetic mean of the CPA entries of the industry
IsMeanCpa(x, ind) ==
    \A total \in {sum_cpa(BENCHMARKS[ind], CpaEntries(ind))} :
        RMul(x, R(Cardinality(CpaEntries(ind)))) = total

\* C25: the industry CPA a CPA insight compares against is the arithmetic mean
\* of the industry's benchmark CPA entries, and 50,000 only when the industry
\* has none.
C25_BenchmarkCpaIsMean ==
    Advised =>
        \A x \in 1..Len(CpaInsights) :
            IF CpaEntries(arg_industry) = {}
            THEN CpaInsights[x]["industry_avg_cpa"] = R(50000)
            ELSE IsMeanCpa(CpaInsights[x]["industry_avg_cpa"], arg_industry)

(***************************************************************************)
(* The two budget-scale corrections of the CPC (specification SpecBench).  *)
(***************************************************************************)
\* C26: apply_budget_adjustment(cpc, budget) is the integer part of
\* cpc x calculate_budget_competition_factor(budget), for every budget, the
\* tier boundaries included.
C26_BudgetCorrectionsAgree ==
    BenchCalled("apply_budget_adjustment") =>
        bench_result.val =
            R(Trunc(RMul(arg_base_metrics["CPC"], calculate_budget_competition_factor(arg_budget))))

(***************************************************************************)
(* Normalized ratios (specification SpecNormalize).                        *)
(***************************************************************************)
\* the ratios of media_config went through the normalization, or were in
\* tolerance when the run started
RatiosSettled == run_state \in {"normalized", "stored", "failed"}

\* C27: the ratios after normalization sum to 100 and each lies in [0, 100].
C27_NormalizedRatios ==
    RatiosSettled =>
        /\ total_ratio_of(media_config) = Hundred
        /\ \A i \in DOMAIN media_config :
              /\ RLe(Zero, media_config[i]["budget_ratio"])
              /\ RLe(media_config[i]["budget_ratio"], Hundred)

(***************************************************************************)
(* Order and frame of the three scenarios (specification Spec).            *)
(***************************************************************************)
OrderedFields == {"estimated_conversions_adjusted", "total_revenue_adjusted", "roas_adjusted"}

WidthInRange == RLe(Zero, scenario_adjustment) /\ RLe(scenario_adjustment, Hundred)

\* C28: with 0 <= s <= 100, every channel whose three entries were computed
\* has conservative <= base <= aggressive in conversions_adjusted,
\* revenue_adjusted and roas_adjusted.
C28_ScenariosOrdered ==
    (Returned /\ WidthInRange) =>
        \A i \in Channels : Succeeded(i) =>
            \A c \in EntriesOf("conservative", i), b \in EntriesOf("base", i),
               a \in EntriesOf("aggressive", i) : \A f \in OrderedFields :
                /\ RLe(scenarios["conservative"][c][f], scenarios["base"][b][f])
                /\ RLe(scenarios["base"][b][f], scenarios["aggressive"][a][f])

\* the fields the derivation of a conservative or aggressive entry writes
DerivedFields ==
    {"estimated_conversions_adjusted", "cpa_adjusted", "total_revenue_adjusted",
     "roas_adjusted"}

SameOutsideDerived(b, d) ==
    \A f \in DOMAIN b \ DerivedFields : f \in DOMAIN d /\ d[f] = b[f]

\* C29: every field of a channel's base entry other than
\* conversions_adjusted, cpa_adjusted, revenue_adjusted and roas_adjusted has
\* the same value in the channel's conservative and aggressive entries.
C29_DerivationFrame ==
    Returned =>
        \A i \in Channels : \A b \in EntriesOf("base", i) :
            /\ \A c \in EntriesOf("conservative", i) :
                  SameOutsideDerived(scenarios["base"][b], scenarios["conservative"][c])
            /\ \A a \in EntriesOf("aggressive", i) :
                  SameOutsideDerived(scenarios["base"][b], scenarios["aggressive"][a])

====
